---- MODULE Spec2Model ----
(***************************************************************************)
(* A model of target_postgres/postgres.py (PostgresTarget): the batch      *)
(* writer write_batch with its schema reconciliation, denesting, bulk load *)
(* and merge statement, and the version activator activate_version.        *)
(*                                                                         *)
(* The database is a function from table names (strings) to tables.  A     *)
(* table has catalog columns, a set of rows and a comment (the sidecar     *)
(* metadata).  A row is a function from column names to values; a column   *)
(* that is NULL in a row is absent from the row's domain, as a key that is *)
(* None or missing is for Python's dict.get.  Optional values (None or a   *)
(* value) are sets with at most one element.                                *)
(***************************************************************************)
EXTENDS Integers, Sequences, FiniteSets, TLC

VARIABLES
    db,       \* the committed database: table name -> table
    txOpen,   \* TRUE while a transaction block opened by BEGIN is open
    pc,       \* "idle", "swap" (inside the loop of activate_version), or "done"
              \* (the call is over and its caller has not resumed yet)
    fetched,  \* the fetched table names the running activate_version has not swapped
    pre,      \* db as it was when the current call started
    call,     \* the current call and its arguments
    ret       \* what the current call did: statements issued, result, warnings

vars == <<db, txOpen, pc, fetched, pre, call, ret>>

----------------------------------------------------------------------------
(* Constants of the program *)

SEPARATOR == "__"
SINGER_SEQUENCE == "_sdc_sequence"
SINGER_TABLE_VERSION == "_sdc_table_version"
SINGER_SOURCE_PK_PREFIX == "_sdc_source_key_"
RESERVED_NULL_DEFAULT == "NULL"

(* The level column named alike at every level. *)
SINGER_LEVEL_flat(n) == "_sdc_level_0_id"

(* SINGER_LEVEL.format(n) *)
SINGER_LEVEL(n) == "_sdc_level_" \o ToString(n) \o "_id"

(* Optional values: None is the empty set, a value v is {v}. *)
None == {}
Some(v) == {v}
The(o) == CHOOSE v \in o : TRUE

(* Whether string s starts with string p. *)
StartsWith(s, p) == Len(s) >= Len(p) /\ SubSeq(s, 1, Len(p)) = p

(* s without its first n characters. *)
DropPrefix(s, n) == SubSeq(s, n + 1, Len(s))

(* The set of the elements of a sequence. *)
Range(s) == {s[i] : i \in DOMAIN s}

(* Function f restricted to the set S. *)
Restrict(f, S) == [x \in S |-> f[x]]

(* Python's dict.get(key): the value as an optional. *)
Get(d, k) == IF k \in DOMAIN d THEN Some(d[k]) ELSE None

----------------------------------------------------------------------------
(* The schema helper json_schema (an external module of the repository).  *)
(* A column schema is [type, nullable]: the JSON type and whether 'null'   *)
(* is among its types.                                                      *)

is_nullable(schema) == schema.nullable

(* A make_nullable that leaves the schema as it is. *)
make_nullable_keeps(schema) == schema

make_nullable(schema) == [schema EXCEPT !.nullable = TRUE]

get_type(schema) == <<schema.nullable, schema.type>>

SqlTypeOf(t) ==
    CASE t = "integer" -> "bigint"
      [] t = "string" -> "text"
      [] t = "boolean" -> "boolean"
      [] OTHER -> "double precision"

JsonTypeOf(s) ==
    CASE s = "bigint" -> "integer"
      [] s = "text" -> "string"
      [] s = "boolean" -> "boolean"
      [] OTHER -> "number"

to_sql(schema) == [sql |-> SqlTypeOf(schema.type), nullable |-> schema.nullable]

from_sql(sql_type, nullable) == [type |-> JsonTypeOf(sql_type), nullable |-> nullable]

sql_shorthand(schema) ==
    CASE schema.type = "integer" -> "i"
      [] schema.type = "string" -> "s"
      [] schema.type = "boolean" -> "b"
      [] OTHER -> "f"

----------------------------------------------------------------------------
(* The database session.  A session state st is [tabs, ok]: the tables as  *)
(* the open transaction sees them, and ok = FALSE once a statement raised  *)
(* (every later step of the call is then skipped, as after a Python        *)
(* exception).                                                              *)

EmptyFn == [x \in {} |-> x]

EmptyMeta == [key_properties |-> <<>>, version |-> None, mappings |-> EmptyFn]

Raise(st) == [st EXCEPT !.ok = FALSE]

PutTable(st, name, tbl) ==
    [st EXCEPT !.tabs = [n \in (DOMAIN st.tabs) \cup {name} |->
                            IF n = name THEN tbl ELSE st.tabs[n]]]

(* A DROP TABLE that drops nothing. *)
RemoveTable_keeps(tabs, name) == tabs

RemoveTable(tabs, name) == Restrict(tabs, (DOMAIN tabs) \ {name})

(* COMMENT ON TABLE: only key_properties, version and mappings are kept. *)
set_table_metadata(st, table_name, metadata) ==
    IF ~st.ok THEN st
    ELSE IF table_name \notin DOMAIN st.tabs THEN Raise(st)
    ELSE PutTable(st, table_name,
             [st.tabs[table_name] EXCEPT !.comment =
                 Some([key_properties |-> metadata.key_properties,
                       version |-> metadata.version,
                       mappings |-> metadata.mappings])])

(* obj_description(to_regclass(name)): None for a missing table or comment. *)
get_table_metadata(st, table_name) ==
    IF table_name \in DOMAIN st.tabs THEN st.tabs[table_name].comment ELSE None

is_table_empty(st, table_name) == st.tabs[table_name].rows = {}

(* ADD COLUMN with the nullability as declared, rows or no rows. *)
add_column_as_declared(st, table_name, column_name, column_schema) ==
    IF ~st.ok THEN st
    ELSE IF table_name \notin DOMAIN st.tabs THEN Raise(st)
    ELSE LET tbl == st.tabs[table_name]
         IN  IF column_name \in DOMAIN tbl.cols THEN Raise(st)
             ELSE PutTable(st, table_name,
                      [tbl EXCEPT !.cols =
                          [c \in (DOMAIN tbl.cols) \cup {column_name} |->
                              IF c = column_name THEN to_sql(column_schema)
                              ELSE tbl.cols[c]]])

(* ALTER TABLE ADD COLUMN; a column added to a table that holds rows is    *)
(* made nullable.  The rows get NULL in the new column.                     *)
add_column(st, table_name, column_name, column_schema) ==
    IF ~st.ok THEN st
    ELSE IF table_name \notin DOMAIN st.tabs THEN Raise(st)
    ELSE LET tbl == st.tabs[table_name]
             data_type ==
                 IF ~is_nullable(column_schema) /\ ~is_table_empty(st, table_name)
                 THEN to_sql(make_nullable(column_schema))
                 ELSE to_sql(column_schema)
         IN  IF column_name \in DOMAIN tbl.cols THEN Raise(st)
             ELSE PutTable(st, table_name,
                      [tbl EXCEPT !.cols =
                          [c \in (DOMAIN tbl.cols) \cup {column_name} |->
                              IF c = column_name THEN data_type ELSE tbl.cols[c]]])

(* A migration that copies nothing. *)
migrate_column_nothing(st, table_name, column_name, mapped_name) == st

(* UPDATE table SET mapped_name = column_name. *)
migrate_column(st, table_name, column_name, mapped_name) ==
    IF ~st.ok THEN st
    ELSE LET tbl == st.tabs[table_name]
             moved(r) ==
                 [c \in ((DOMAIN r) \ {mapped_name}) \cup
                        (IF column_name \in DOMAIN r THEN {mapped_name} ELSE {}) |->
                     IF c = mapped_name THEN r[column_name] ELSE r[c]]
         IN  IF {column_name, mapped_name} \subseteq DOMAIN tbl.cols
             THEN PutTable(st, table_name,
                      [tbl EXCEPT !.rows = {moved(r) : r \in tbl.rows}])
             ELSE Raise(st)

(* ALTER TABLE DROP COLUMN. *)
drop_column(st, table_name, column_name) ==
    IF ~st.ok THEN st
    ELSE LET tbl == st.tabs[table_name]
         IN  IF column_name \notin DOMAIN tbl.cols THEN Raise(st)
             ELSE PutTable(st, table_name,
                      [tbl EXCEPT
                          !.cols = Restrict(tbl.cols, (DOMAIN tbl.cols) \ {column_name}),
                          !.rows = {Restrict(r, (DOMAIN r) \ {column_name}) : r \in tbl.rows}])

(* ALTER TABLE ALTER COLUMN DROP NOT NULL. *)
make_column_nullable(st, table_name, column_name) ==
    IF ~st.ok THEN st
    ELSE LET tbl == st.tabs[table_name]
         IN  IF column_name \notin DOMAIN tbl.cols THEN Raise(st)
             ELSE PutTable(st, table_name,
                      [tbl EXCEPT !.cols[column_name].nullable = TRUE])

RECURSIVE add_columns(_, _, _, _)
(* The loop of create_table over schema['properties'], a sequence of       *)
(* [name, schema] in the dict's order.                                      *)
add_columns(st, table_name, properties, i) ==
    IF i > Len(properties) THEN st
    ELSE add_columns(add_column(st, table_name, properties[i].name, properties[i].schema),
                     table_name, properties, i + 1)

(* CREATE TABLE (); the comment is set only for non-empty key_properties. *)
create_table(st, table_name, properties, key_properties, table_version) ==
    IF ~st.ok THEN st
    ELSE IF table_name \in DOMAIN st.tabs THEN Raise(st)
    ELSE LET created == PutTable(st, table_name,
                            [cols |-> EmptyFn, rows |-> {}, comment |-> None])
             commented ==
                 IF key_properties # <<>>
                 THEN set_table_metadata(created, table_name,
                          [EmptyMeta EXCEPT !.key_properties = key_properties,
                                            !.version = table_version])
                 ELSE created
         IN  add_columns(commented, table_name, properties, 1)

(* The catalog columns and the sidecar metadata of a table; None when the  *)
(* table has neither.                                                       *)
get_table_schema(st, table_name) ==
    LET properties ==
            IF table_name \in DOMAIN st.tabs
            THEN [c \in DOMAIN st.tabs[table_name].cols |->
                     from_sql(st.tabs[table_name].cols[c].sql,
                              st.tabs[table_name].cols[c].nullable)]
            ELSE EmptyFn
        metadata == get_table_metadata(st, table_name)
    IN  IF metadata = None /\ DOMAIN properties = {} THEN None
        ELSE Some([name |-> table_name, metadata |-> metadata, properties |-> properties])

mapping_name(field, schema) == field \o SEPARATOR \o sql_shorthand(schema)

(* The mapped column of (field, schema) when the mappings hold one. *)
get_mapping(mappings, field, schema) ==
    LET typed_field == mapping_name(field, schema)
    IN  IF typed_field \in DOMAIN mappings /\ field = mappings[typed_field].from
        THEN Some(typed_field)
        ELSE None

add_column_mapping(st, table_name, column_name, mapped_name, mapped_schema) ==
    IF ~st.ok THEN st
    ELSE LET found == get_table_metadata(st, table_name)
             metadata == IF found = None THEN EmptyMeta ELSE The(found)
             entry == [type |-> get_type(mapped_schema), from |-> column_name]
         IN  set_table_metadata(st, table_name,
                 [metadata EXCEPT !.mappings =
                     [m \in (DOMAIN metadata.mappings) \cup {mapped_name} |->
                         IF m = mapped_name THEN entry ELSE metadata.mappings[m]]])

----------------------------------------------------------------------------
(* The schema reconciler.  The loop state is [st, props]: the session and  *)
(* existing_properties, the dict the loop updates in place.                 *)

SetProp(props, name, schema) ==
    [c \in (DOMAIN props) \cup {name} |-> IF c = name THEN schema ELSE props[c]]

(* column_name -> column_name__<current type>, column_name__<new type> *)
split_column(st, table_name, column_name, column_schema, existing_properties) ==
    LET existing_column_mapping ==
            mapping_name(column_name, existing_properties[column_name])
        new_column_mapping == mapping_name(column_name, column_schema)
        existing_mapped == make_nullable(existing_properties[column_name])
        new_mapped == make_nullable(column_schema)
        props1 == SetProp(existing_properties, existing_column_mapping, existing_mapped)
        props2 == SetProp(props1, new_column_mapping, new_mapped)
        st1 == add_column_mapping(st, table_name, column_name,
                                  existing_column_mapping, existing_mapped)
        st2 == add_column_mapping(st1, table_name, column_name,
                                  new_column_mapping, new_mapped)
        st3 == add_column(st2, table_name, existing_column_mapping, existing_mapped)
        st4 == add_column(st3, table_name, new_column_mapping, new_mapped)
        st5 == migrate_column(st4, table_name, column_name, existing_column_mapping)
        st6 == drop_column(st5, table_name, column_name)
    IN  [st |-> st6, props |-> Restrict(props2, (DOMAIN props2) \ {column_name})]

(* The loop body with the compatible case tried before, and so instead    *)
(* of, the widen-null case.                                                 *)
merge_put_column_compatible_first(ls, table_name, mappings, name, schema) ==
    LET st == ls.st
        existing_properties == ls.props
    IN  IF ~st.ok THEN ls
        ELSE IF get_mapping(mappings, name, schema) # None THEN ls
        ELSE IF name \notin DOMAIN existing_properties
             THEN [st |-> add_column(st, table_name, name, schema),
                   props |-> SetProp(existing_properties, name, schema)]
        ELSE IF to_sql(make_nullable(schema))
                    = to_sql(make_nullable(existing_properties[name]))
             THEN ls
        ELSE IF /\ mapping_name(name, schema) \notin DOMAIN existing_properties
                /\ mapping_name(name, existing_properties[name])
                       \notin DOMAIN existing_properties
             THEN split_column(st, table_name, name, schema, existing_properties)
        ELSE [ls EXCEPT !.st = Raise(st)]

(* One iteration of the loop of merge_put_schemas: the first case that     *)
(* matches among mapped, new, widen-null, compatible, split, conflict.     *)
merge_put_column(ls, table_name, mappings, name, schema) ==
    LET st == ls.st
        existing_properties == ls.props
    IN  IF ~st.ok THEN ls
        ELSE IF get_mapping(mappings, name, schema) # None THEN ls
        ELSE IF name \notin DOMAIN existing_properties
             THEN [st |-> add_column(st, table_name, name, schema),
                   props |-> SetProp(existing_properties, name, schema)]
        ELSE IF /\ ~is_nullable(existing_properties[name])
                /\ get_type(schema) = get_type(make_nullable(existing_properties[name]))
             THEN [st |-> make_column_nullable(st, table_name, name),
                   props |-> SetProp(existing_properties, name,
                                     make_nullable(existing_properties[name]))]
        ELSE IF to_sql(make_nullable(schema))
                    = to_sql(make_nullable(existing_properties[name]))
             THEN ls
        ELSE IF /\ mapping_name(name, schema) \notin DOMAIN existing_properties
                /\ mapping_name(name, existing_properties[name])
                       \notin DOMAIN existing_properties
             THEN split_column(st, table_name, name, schema, existing_properties)
        ELSE [ls EXCEPT !.st = Raise(st)]

RECURSIVE merge_put_loop(_, _, _, _, _)
merge_put_loop(ls, table_name, mappings, new_properties, i) ==
    IF i > Len(new_properties) THEN ls
    ELSE merge_put_loop(
             merge_put_column(ls, table_name, mappings,
                              new_properties[i].name, new_properties[i].schema),
             table_name, mappings, new_properties, i + 1)

(* existing_schema is the table schema read before the loop; its mappings  *)
(* are not refreshed while the loop runs.                                   *)
merge_put_schemas(st, table_name, existing_schema, new_properties) ==
    LET mappings ==
            IF existing_schema.metadata = None THEN EmptyFn
            ELSE The(existing_schema.metadata).mappings
    IN  merge_put_loop([st |-> st, props |-> existing_schema.properties],
                       table_name, mappings, new_properties, 1).st

(* Reconciles one table; a table_json_schema is [name, key_properties,     *)
(* properties].  Returns the session; the caller reads the schema back.     *)
update_table_schema(st, remote_table_json_schema, table_json_schema, version) ==
    IF ~st.ok THEN st
    ELSE IF remote_table_json_schema # None
    THEN merge_put_schemas(st, The(remote_table_json_schema).name,
                           The(remote_table_json_schema),
                           table_json_schema.properties)
    ELSE create_table(st, table_json_schema.name, table_json_schema.properties,
                      table_json_schema.key_properties, version)

----------------------------------------------------------------------------
(* update_schema of SQLInterface (sql_base, an external module of the      *)
(* repository).  A stream schema is [properties, lists]: the scalar         *)
(* properties of the record, a sequence of [name, schema], and the lists of *)
(* objects it declares, a sequence of [path, properties].  Every list is a *)
(* child table <root>__<path> keyed by the source keys, with the sequence   *)
(* and one level-index column.                                              *)

PropSchema(properties, name) ==
    LET hit == {i \in DOMAIN properties : properties[i].name = name}
    IN  IF hit = {} THEN None ELSE Some(properties[CHOOSE i \in hit : TRUE].schema)

SourceKeys(key_properties) ==
    [i \in DOMAIN key_properties |-> SINGER_SOURCE_PK_PREFIX \o key_properties[i]]

SubtableSchema(root_table_name, schema, key_properties, list) ==
    [name |-> root_table_name \o SEPARATOR \o list.path,
     key_properties |-> SourceKeys(key_properties),
     properties |->
         list.properties
         \o [i \in DOMAIN key_properties |->
                [name |-> SINGER_SOURCE_PK_PREFIX \o key_properties[i],
                 schema |-> The(PropSchema(schema.properties, key_properties[i]))]]
         \o <<[name |-> SINGER_SEQUENCE,
               schema |-> [type |-> "integer", nullable |-> TRUE]],
              [name |-> SINGER_LEVEL(0),
               schema |-> [type |-> "integer", nullable |-> FALSE]]>>]

TableSchemas(root_table_name, schema, key_properties) ==
    <<[name |-> root_table_name,
       key_properties |-> key_properties,
       properties |-> schema.properties]>>
    \o [i \in DOMAIN schema.lists |->
           SubtableSchema(root_table_name, schema, key_properties, schema.lists[i])]

RECURSIVE update_schema_loop(_, _, _, _)
(* us is [st, table_schemas]; each table is reconciled in turn and its     *)
(* schema read back.                                                        *)
update_schema_loop(us, streamed, version, i) ==
    IF i > Len(streamed) \/ ~us.st.ok THEN us
    ELSE LET remote == get_table_schema(us.st, streamed[i].name)
             st1 == update_table_schema(us.st, remote, streamed[i], version)
         IN  update_schema_loop(
                 [st |-> st1,
                  table_schemas |->
                      Append(us.table_schemas,
                             [streamed_schema |-> streamed[i],
                              updated_remote_schema |->
                                  get_table_schema(st1, streamed[i].name)])],
                 streamed, version, i + 1)

update_schema(st, schema, key_properties, root_table_name, version) ==
    IF ~st.ok THEN [st |-> st, table_schemas |-> <<>>]
    ELSE IF \E i \in DOMAIN key_properties :
                PropSchema(schema.properties, key_properties[i]) = None
    THEN [st |-> Raise(st), table_schemas |-> <<>>]
    ELSE update_schema_loop([st |-> st, table_schemas |-> <<>>],
                            TableSchemas(root_table_name, schema, key_properties),
                            version, 1)

----------------------------------------------------------------------------
(* The record transformer.  A record is a function from field names to     *)
(* tagged values: [k |-> "int", v] and [k |-> "str", v] (scalars),         *)
(* [k |-> "dict", v] (v a record), [k |-> "list", v] (v a sequence of      *)
(* records) or [k |-> "none"].  A denested row is a function from column   *)
(* names to tagged scalars.  The                                            *)
(* accumulator ds is [map, row, ok]: records_map (table name -> sequence of *)
(* rows), the row being built, and ok = FALSE once an exception was raised. *)
(* The wall-clock columns _sdc_received_at and _sdc_batched_at and the      *)
(* generated _sdc_primary_key are left out of the records.                  *)

IntVal(v) == [k |-> "int", v |-> v]
StrVal(v) == [k |-> "str", v |-> v]
Dict(d) == [k |-> "dict", v |-> d]
List(l) == [k |-> "list", v |-> l]
NoneValue == [k |-> "none"]

SetKey(d, key, value) ==
    [f \in (DOMAIN d) \cup {key} |-> IF f = key THEN value ELSE d[f]]

(* Every key of b set in a, as the loop record[key] = value does. *)
Update(a, b) ==
    [f \in (DOMAIN a) \cup (DOMAIN b) |-> IF f \in DOMAIN b THEN b[f] ELSE a[f]]

process_record_message(record_message, now) ==
    LET versioned ==
            IF record_message.version # None
            THEN SetKey(record_message.record, SINGER_TABLE_VERSION,
                        IntVal(The(record_message.version)))
            ELSE record_message.record
    IN  SetKey(versioned, SINGER_SEQUENCE,
               IntVal(IF record_message.sequence # None
                      THEN The(record_message.sequence)
                      ELSE now))

AppendRow(map, table_name, row) ==
    [t \in (DOMAIN map) \cup {table_name} |->
        IF t = table_name
        THEN (IF t \in DOMAIN map THEN Append(map[t], row) ELSE <<row>>)
        ELSE map[t]]

RECURSIVE denest_records_loop(_, _, _, _, _, _, _)
RECURSIVE denest_record_props(_, _, _, _, _, _, _, _)
RECURSIVE denest_subrecord(_, _, _, _, _, _, _, _)

(* for record in records: ... of denest_records; pk_fks is a function from *)
(* column names to scalars, empty (None) at the top level.                  *)
denest_records_loop(table_name, records, i, ds, key_properties, pk_fks, level) ==
    IF i > Len(records) \/ ~ds.ok THEN ds
    ELSE LET record == records[i]
             top == DOMAIN pk_fks = {}
             missing == top /\ \E j \in DOMAIN key_properties :
                                  key_properties[j] \notin DOMAIN record
             record_pk_fks ==
                 IF ~top
                 THEN SetKey(pk_fks, SINGER_LEVEL(level), IntVal(i - 1))
                 ELSE LET keys == [f \in {SINGER_SOURCE_PK_PREFIX \o key_properties[j] :
                                              j \in DOMAIN key_properties} |->
                                      record[DropPrefix(f, Len(SINGER_SOURCE_PK_PREFIX))]]
                      IN  IF SINGER_SEQUENCE \in DOMAIN record
                          THEN SetKey(keys, SINGER_SEQUENCE, record[SINGER_SEQUENCE])
                          ELSE keys
             keyed == IF top THEN record ELSE Update(record, record_pk_fks)
         IN  IF missing THEN [ds EXCEPT !.ok = FALSE]
             ELSE LET done == denest_record_props(table_name, "", keyed, DOMAIN keyed,
                                      [ds EXCEPT !.row = EmptyFn],
                                      key_properties, record_pk_fks, level)
                  IN  denest_records_loop(
                          table_name, records, i + 1,
                          IF done.ok
                          THEN [done EXCEPT !.map = AppendRow(done.map, table_name, done.row)]
                          ELSE done,
                          key_properties, pk_fks, level)

(* for prop, value in record.items(): ... of denest_record *)
denest_record_props(table_name, current_path, record, todo, ds, key_properties, pk_fks, level) ==
    IF todo = {} \/ ~ds.ok THEN ds
    ELSE LET prop == CHOOSE f \in todo : TRUE
             value == record[prop]
             next_path == IF current_path # "" THEN current_path \o SEPARATOR \o prop
                          ELSE prop
             ds1 ==
                 CASE value.k = "dict" ->
                          denest_subrecord(table_name, next_path, value.v, DOMAIN value.v,
                                           ds, key_properties, pk_fks, level)
                   [] value.k = "list" ->
                          [denest_records_loop(table_name \o SEPARATOR \o next_path,
                                               value.v, 1, ds, key_properties,
                                               pk_fks, level + 1)
                              EXCEPT !.row = ds.row]
                   [] value.k = "none" -> ds
                   [] OTHER -> [ds EXCEPT !.row = SetKey(ds.row, next_path, value)]
         IN  denest_record_props(table_name, current_path, record, todo \ {prop}, ds1,
                                 key_properties, pk_fks, level)

(* denest_subrecord: the scalars of an object go into the parent's row.    *)
(* Its recursive call for an object inside the object passes 6 of the 8    *)
(* arguments, which raises TypeError; its call of denest_records is sound.  *)
denest_subrecord(table_name, current_path, record, todo, ds, key_properties, pk_fks, level) ==
    IF todo = {} \/ ~ds.ok THEN ds
    ELSE LET prop == CHOOSE f \in todo : TRUE
             value == record[prop]
             next_path == current_path \o SEPARATOR \o prop
             ds1 ==
                 CASE value.k = "dict" -> [ds EXCEPT !.ok = FALSE]
                   [] value.k = "list" ->
                          [denest_records_loop(table_name \o SEPARATOR \o next_path,
                                               value.v, 1, ds, key_properties,
                                               pk_fks, level + 1)
                              EXCEPT !.row = ds.row]
                   [] value.k = "none" ->
                          [ds EXCEPT !.row = Restrict(ds.row, (DOMAIN ds.row) \ {next_path})]
                   [] OTHER -> [ds EXCEPT !.row = SetKey(ds.row, next_path, value)]
         IN  denest_subrecord(table_name, current_path, record, todo \ {prop}, ds1,
                              key_properties, pk_fks, level)

denest_records(table_name, records, key_properties) ==
    denest_records_loop(table_name, records, 1,
                        [map |-> EmptyFn, row |-> EmptyFn, ok |-> TRUE],
                        key_properties, EmptyFn, -1)

----------------------------------------------------------------------------
(* The bulk loader: the rows of the CSV stream, COPY into the temp table,  *)
(* and the merge statement of get_update_sql.                               *)

MaxLevel == 1

(* re.match of SINGER_LEVEL.format('[0-9]+'): the header starts with a     *)
(* level-index column name.                                                 *)
IsLevelColumn(header) == \E n \in 0..MaxLevel : StartsWith(header, SINGER_LEVEL(n))

(* A cell is None or the reserved string: both are written as the NULL     *)
(* token of the CSV stream.                                                 *)
IsNullCell(value) ==
    value = None \/ (The(value).k = "str" /\ The(value).v = RESERVED_NULL_DEFAULT)

(* A resolution that writes every field under its own name. *)
FieldName_unmapped(field, mappings, streamed_properties) == field

(* The column a field is written to: the mapped column when the field is   *)
(* declared in the streamed schema and the remote metadata maps it.         *)
FieldName(field, mappings, streamed_properties) ==
    LET declared == PropSchema(streamed_properties, field)
        mapped == IF declared = None THEN None
                  ELSE get_mapping(mappings, field, The(declared))
    IN  IF mapped # None THEN The(mapped) ELSE field

(* The rows transform() can build for one record, over every iteration     *)
(* order of the set `fields`: a column takes the value of the first field  *)
(* written to it in that order, and a later field replaces it only while it *)
(* is None or the reserved string.  So each column ends with the first     *)
(* non-null value among its fields in the order, and any of its non-null   *)
(* values can come first.                                                   *)
transform(record, fields, mappings, streamed_properties) ==
    LET columns == {FieldName(f, mappings, streamed_properties) : f \in fields}
        candidates(c) ==
            {Get(record, f) : f \in {g \in fields :
                 /\ FieldName(g, mappings, streamed_properties) = c
                 /\ ~IsNullCell(Get(record, g))}}
        options(c) == IF candidates(c) = {} THEN {None} ELSE candidates(c)
    IN  IF \A c \in columns : Cardinality(options(c)) = 1
        THEN {[c \in columns |-> The(options(c))]}
        ELSE {row \in [columns -> UNION {options(c) : c \in columns}] :
                 \A c \in columns : row[c] \in options(c)}

(* One CSV cell read by COPY into a column of the temp table: the value    *)
(* stored, or "error" for text sent to a bigint column.  An integer sent   *)
(* to a text column is stored as its decimal string.                        *)
CopyCell(cell, column) ==
    IF cell.k = "str"
    THEN (IF column.sql = "text" THEN Some(cell.v) ELSE None)
    ELSE (IF column.sql = "text" THEN Some(ToString(cell.v)) ELSE Some(cell.v))

(* csv.DictWriter(out, headers).writerow(row) and COPY of that line: the   *)
(* stored row, or None when the writer or COPY raises (a key outside       *)
(* headers, a NULL in a NOT NULL column, a value of the wrong type).  A    *)
(* header missing from row is written as the empty string.                 *)
CopyRow(row, cols) ==
    LET headers == DOMAIN cols
        cell(h) == IF h \in DOMAIN row THEN row[h] ELSE Some(StrVal(""))
        present == {h \in headers : ~IsNullCell(cell(h))}
    IN  IF /\ DOMAIN row \subseteq headers
           /\ \A h \in headers \ present : cols[h].nullable
           /\ \A h \in present : CopyCell(The(cell(h)), cols[h]) # None
        THEN Some([h \in present |-> The(CopyCell(The(cell(h)), cols[h]))])
        ELSE None

RECURSIVE CopyRows(_, _, _, _, _, _)
(* cur.copy_expert: the temp table's possible contents, a set of sequences *)
(* of rows in the order of `records`; empty when a row cannot be loaded.    *)
CopyRows(records, i, fields, mappings, streamed_properties, cols) ==
    IF i > Len(records) THEN {<<>>}
    ELSE LET heads == {CopyRow(row, cols) :
                          row \in transform(records[i], fields, mappings,
                                            streamed_properties)}
             tails == CopyRows(records, i + 1, fields, mappings,
                               streamed_properties, cols)
         IN  IF None \in heads THEN {}
             ELSE {<<The(h)>> \o t : h \in heads, t \in tails}

(* An equality that no two values satisfy, as if every value were NULL. *)
SqlEq_never(a, b) == FALSE

(* SQL comparison of two optional values: never true on NULL. *)
SqlEq(a, b) == a # None /\ b # None /\ a = b

(* The values of a row in the given columns, NULL included. *)
KeyOf(row, columns) == [c \in columns |-> Get(row, c)]

(* A join on the key that matches no pair of rows. *)
pk_where_never(target_row, temp_row, key_properties) == FALSE

(* {table}.{pk} = {temp_table}.{pk} AND ... for every key property *)
pk_where(target_row, temp_row, key_properties) ==
    \A i \in DOMAIN key_properties :
        SqlEq(Get(target_row, key_properties[i]), Get(temp_row, key_properties[i]))

(* The join without its condition on the sequence. *)
sequence_join_any(target_row, temp_row) == TRUE

(* AND temp._sdc_sequence >= table._sdc_sequence *)
sequence_join(target_row, temp_row) ==
    /\ SINGER_SEQUENCE \in DOMAIN temp_row
    /\ SINGER_SEQUENCE \in DOMAIN target_row
    /\ temp_row[SINGER_SEQUENCE] >= target_row[SINGER_SEQUENCE]

(* ORDER BY ..., _sdc_sequence ASC: the lowest sequence first. *)
SortsAscending(a, b) ==
    \/ SINGER_SEQUENCE \notin DOMAIN a
    \/ /\ SINGER_SEQUENCE \in DOMAIN b
       /\ a[SINGER_SEQUENCE] <= b[SINGER_SEQUENCE]

(* ORDER BY ..., _sdc_sequence DESC: a comes no later than b (NULLs sort   *)
(* first in a descending order).                                            *)
SortsBefore(a, b) ==
    \/ SINGER_SEQUENCE \notin DOMAIN a
    \/ /\ SINGER_SEQUENCE \in DOMAIN b
       /\ a[SINGER_SEQUENCE] >= b[SINGER_SEQUENCE]

(* The merge statement on the rows of the target (a set) and of the temp   *)
(* table (a sequence): the set of the target's possible contents.  DISTINCT *)
(* ON keeps the first row of each group in the ORDER BY order; rows that   *)
(* tie in that order come in an order SQL leaves open, so any of them may  *)
(* be the one kept.                                                         *)
get_update_sql(target_rows, temp_rows, key_properties, subkeys) ==
    LET keys == Range(key_properties)
        pks == {KeyOf(temp_rows[i], keys) : i \in
                   {j \in DOMAIN temp_rows : \E r \in target_rows :
                        pk_where(r, temp_rows[j], key_properties)
                        /\ sequence_join(r, temp_rows[j])}}
        kept == {r \in target_rows :
                    ~\E pk \in pks : \A c \in keys : SqlEq(Get(r, c), pk[c])}
        fresh == {i \in DOMAIN temp_rows :
                     ~\E r \in kept : pk_where(r, temp_rows[i], key_properties)}
        insert_distinct_on == keys \cup subkeys
        groups == {KeyOf(temp_rows[i], insert_distinct_on) : i \in fresh}
        first(g) == {temp_rows[i] : i \in {j \in fresh :
                        /\ KeyOf(temp_rows[j], insert_distinct_on) = g
                        /\ \A m \in fresh :
                               KeyOf(temp_rows[m], insert_distinct_on) = g
                                   => SortsBefore(temp_rows[j], temp_rows[m])}}
    IN  IF \A g \in groups : Cardinality(first(g)) = 1
        THEN {kept \cup {The(first(g)) : g \in groups}}
        ELSE {kept \cup {pick[g] : g \in groups} :
                 pick \in {f \in [groups -> UNION {first(g) : g \in groups}] :
                              \A g \in groups : f[g] \in first(g)}}

(* persist_rows: the sessions it can end in.  The statement fails on an    *)
(* empty key list (DISTINCT ON () and ON AND ... do not parse) and on a    *)
(* key or sequence column the tables lack.                                  *)
persist_rows(st, target_table_name, temp_table_name, remote_schema, streamed_schema, key_properties, records) ==
    IF ~st.ok THEN {st}
    ELSE IF ~{target_table_name, temp_table_name} \subseteq DOMAIN st.tabs
    THEN {Raise(st)}
    ELSE LET headers == DOMAIN remote_schema.properties
             mappings == IF remote_schema.metadata = None THEN EmptyFn
                         ELSE The(remote_schema.metadata).mappings
             fields == headers \cup {mappings[m].from : m \in DOMAIN mappings}
             temp == st.tabs[temp_table_name]
             target == st.tabs[target_table_name]
             loaded == CopyRows(records, 1, fields, mappings,
                                streamed_schema.properties, temp.cols)
             subkeys == {h \in headers : IsLevelColumn(h)}
             needed == Range(key_properties) \cup {SINGER_SEQUENCE}
         IN  IF \/ loaded = {}
                \/ key_properties = <<>>
                \/ ~needed \subseteq DOMAIN temp.cols
                \/ ~needed \subseteq DOMAIN target.cols
             THEN {Raise(st)}
             ELSE {[st EXCEPT !.tabs =
                       RemoveTable([st.tabs EXCEPT ![target_table_name].rows = merged],
                                   temp_table_name)] :
                      merged \in UNION {get_update_sql(target.rows, temp_rows,
                                                       key_properties, subkeys) :
                                           temp_rows \in loaded}}

----------------------------------------------------------------------------
(* The batch orchestrator.  A stream buffer is [stream, key_properties,    *)
(* schema, messages]; a record message is [record, version, sequence].     *)
(* A call ends in an outcome [tabs, working, stmts, raised, flushed, root,  *)
(* warnings, reconciled]: the committed tables, the tables as the          *)
(* transaction saw them at its end, the transaction statements that were   *)
(* executed, whether PostgresError was raised, whether flush_buffer was    *)
(* called, the root table written to, the warnings logged, and the tables  *)
(* as the transaction saw them when update_schema returned.                 *)

(* What the database keeps of a transaction's work. *)
COMMIT(committed, working) == working

(* A rollback that keeps the work. *)
ROLLBACK_keeps(committed, working) == working

ROLLBACK(committed, working) == committed

(* The points where the database can fail a statement of write_batch:      *)
(* reading the remote schema, the first statement after the schema was     *)
(* reconciled, and COMMIT.                                                  *)
Faults == {"none", "read", "load", "commit"}

get_temp_table_name(stream_name) == stream_name \o SEPARATOR \o "uuid"

RECURSIVE PropsSeq(_, _)
(* The items of a properties dict, as the sequence create_table loops over. *)
PropsSeq(properties, todo) ==
    IF todo = {} THEN <<>>
    ELSE LET c == CHOOSE x \in todo : TRUE
         IN  <<[name |-> c, schema |-> properties[c]]>> \o PropsSeq(properties, todo \ {c})

(* record.get(SINGER_TABLE_VERSION) *)
RecordVersion(record) ==
    IF SINGER_TABLE_VERSION \in DOMAIN record /\ record[SINGER_TABLE_VERSION].k = "int"
    THEN Some(record[SINGER_TABLE_VERSION].v)
    ELSE None

(* One iteration of the loop over table_schemas: the temp table is created *)
(* from the remote schema and the table's rows are loaded and merged.       *)
load_table(st, table_schema, records_map, table_version) ==
    IF ~st.ok THEN {st}
    ELSE IF table_schema.updated_remote_schema = None THEN {Raise(st)}
    ELSE LET remote_schema == The(table_schema.updated_remote_schema)
             target_table_name == get_temp_table_name(remote_schema.name)
         IN  IF remote_schema.metadata = None
                \/ remote_schema.name \notin DOMAIN records_map
             THEN {Raise(st)}
             ELSE LET key_properties == The(remote_schema.metadata).key_properties
                      created == create_table(st, target_table_name,
                                     PropsSeq(remote_schema.properties,
                                              DOMAIN remote_schema.properties),
                                     key_properties, table_version)
                  IN  persist_rows(created, remote_schema.name, target_table_name,
                                   remote_schema, table_schema.streamed_schema,
                                   key_properties, records_map[remote_schema.name])

RECURSIVE load_tables(_, _, _, _, _)
load_tables(sts, table_schemas, records_map, table_version, i) ==
    IF i > Len(table_schemas) THEN sts
    ELSE load_tables(UNION {load_table(st, table_schemas[i], records_map, table_version) :
                                st \in sts},
                     table_schemas, records_map, table_version, i + 1)

(* The root table a batch is written to. *)
RootTableName(stream, current_table_version, target_table_version) ==
    IF /\ current_table_version # None
       /\ The(target_table_version) > The(current_table_version)
    THEN stream \o SEPARATOR \o ToString(The(target_table_version))
    ELSE stream

(* A check of the key properties that lets every batch pass. *)
key_properties_unchecked(stream_buffer, current_table_schema) == FALSE

(* set(stream_buffer.key_properties) != set(current.get('key_properties')): *)
(* the key property names changed.  set(None), for a table without         *)
(* metadata, raises TypeError.                                              *)
key_properties_changed(stream_buffer, current_table_schema) ==
    /\ current_table_schema # None
    /\ \/ The(current_table_schema).metadata = None
       \/ Range(stream_buffer.key_properties)
              # Range(The(The(current_table_schema).metadata).key_properties)

(* The loop over key_properties: the type of a key changed.  A key the     *)
(* remote table or the stream schema lacks raises KeyError.                 *)
key_properties_type_changed(stream_buffer, current_table_schema) ==
    /\ current_table_schema # None
    /\ \E i \in DOMAIN stream_buffer.key_properties :
           LET key == stream_buffer.key_properties[i]
               streamed == PropSchema(stream_buffer.schema.properties, key)
           IN  \/ key \notin DOMAIN The(current_table_schema).properties
               \/ streamed = None
               \/ get_type(The(current_table_schema).properties[key])
                      # get_type(The(streamed))

write_batch(tabs, stream_buffer, now, fault) ==
    IF Len(stream_buffer.messages) = 0
    THEN {[tabs |-> tabs, working |-> tabs, stmts |-> <<>>, raised |-> FALSE,
           flushed |-> FALSE, root |-> None, warnings |-> {}, reconciled |-> tabs]}
    ELSE
    LET records_all_versions ==
            [i \in DOMAIN stream_buffer.messages |->
                process_record_message(stream_buffer.messages[i], now)]
        versions == {RecordVersion(records_all_versions[i]) :
                        i \in DOMAIN records_all_versions}
        numbers == UNION versions
        max_version ==
            IF numbers = {} THEN None
            ELSE Some(CHOOSE v \in numbers : \A w \in numbers : w <= v)
        st0 == [tabs |-> tabs, ok |-> fault # "read"]
        current_table_schema == get_table_schema(st0, stream_buffer.stream)
        current_table_version ==
            IF current_table_schema = None
               \/ The(current_table_schema).metadata = None
            THEN None
            ELSE The(The(current_table_schema).metadata).version
        keys_changed == key_properties_changed(stream_buffer, current_table_schema)
        target_table_version == max_version
        (* min(versions) < current_table_version and                           *)
        (* target_table_version > current_table_version compare None with an   *)
        (* integer when a record carries no version: TypeError                  *)
        none_compared == current_table_version # None /\ None \in versions
        earlier == /\ current_table_version # None
                   /\ ~none_compared
                   /\ \E v \in numbers : v < The(current_table_version)
        warnings ==
            (IF earlier THEN {"earlier table version"} ELSE {})
            \cup (IF Cardinality(versions) > 1 THEN {"multiple table versions"} ELSE {})
        root_table_name ==
            IF none_compared THEN stream_buffer.stream
            ELSE RootTableName(stream_buffer.stream, current_table_version,
                               target_table_version)
        keep(record) == RecordVersion(record) = target_table_version
        records ==
            IF target_table_version # None
            THEN SelectSeq(records_all_versions, keep)
            ELSE records_all_versions
        key_type_changed == key_properties_type_changed(stream_buffer,
                                                        current_table_schema)
        st1 == IF keys_changed \/ none_compared \/ key_type_changed
               THEN Raise(st0) ELSE st0
        updated == update_schema(st1, stream_buffer.schema,
                                 stream_buffer.key_properties,
                                 root_table_name, target_table_version)
        denested == denest_records(root_table_name, records,
                                   stream_buffer.key_properties)
        st2 == IF updated.st.ok /\ (~denested.ok \/ fault = "load")
               THEN Raise(updated.st) ELSE updated.st
        loaded == load_tables({st2}, updated.table_schemas, denested.map,
                              target_table_version, 1)
    IN  {IF st.ok /\ fault # "commit"
         THEN [tabs |-> COMMIT(tabs, st.tabs), working |-> st.tabs,
               stmts |-> <<"BEGIN", "COMMIT">>,
               raised |-> FALSE, flushed |-> TRUE,
               root |-> Some(root_table_name), warnings |-> warnings,
               reconciled |-> updated.st.tabs]
         ELSE [tabs |-> ROLLBACK(tabs, st.tabs), working |-> st.tabs,
               stmts |-> <<"BEGIN", "ROLLBACK">>,
               raised |-> TRUE, flushed |-> FALSE,
               root |-> None,
               warnings |-> IF st0.ok /\ ~keys_changed /\ ~none_compared
                            THEN warnings ELSE {},
               reconciled |-> updated.st.tabs] :
         st \in loaded}

----------------------------------------------------------------------------
(* The version activator, one step per statement batch it executes.        *)

RECURSIVE LikePrefix(_, _, _)
(* tablename LIKE prefix || '%', from character i on: an underscore of the *)
(* pattern matches any one character.                                       *)
LikePrefix(name, prefix, i) ==
    IF i > Len(prefix) THEN TRUE
    ELSE /\ i <= Len(name)
         /\ SubSeq(prefix, i, i) \in {"_", SubSeq(name, i, i)}
         /\ LikePrefix(name, prefix, i + 1)

versioned_root_table(stream, version) == stream \o SEPARATOR \o ToString(version)

(* SELECT tablename FROM pg_tables WHERE tablename like ... *)
VersionedTables(tabs, stream, version) ==
    {t \in DOMAIN tabs : LikePrefix(t, versioned_root_table(stream, version), 1)}

(* The live name computed for a fetched table name. *)
LiveName(stream, version, versioned_table_name) ==
    stream \o DropPrefix(versioned_table_name, Len(versioned_root_table(stream, version)))

(* The swap cut short after its first statement. *)
SwapTables_first_rename(tabs, table_name, versioned_table_name) ==
    LET old == table_name \o SEPARATOR \o "old"
    IN  IF table_name \in DOMAIN tabs
        THEN Some([n \in ((DOMAIN tabs) \ {table_name}) \cup {old} |->
                      IF n = old THEN tabs[table_name] ELSE tabs[n]])
        ELSE None

(* The swap without its DROP TABLE. *)
SwapTables_keeps_old(tabs, table_name, versioned_table_name) ==
    LET old == table_name \o SEPARATOR \o "old"
    IN  IF {table_name, versioned_table_name} \subseteq DOMAIN tabs
        THEN Some([n \in ((DOMAIN tabs) \ {versioned_table_name}) \cup {old} |->
                      IF n = old THEN tabs[table_name]
                      ELSE IF n = table_name THEN tabs[versioned_table_name]
                      ELSE tabs[n]])
        ELSE None

(* ALTER TABLE live RENAME TO live__old; ALTER TABLE versioned RENAME TO   *)
(* live; DROP TABLE live__old: the tables after the three statements, or   *)
(* None when one of them fails.                                             *)
SwapTables(tabs, table_name, versioned_table_name) ==
    LET old == table_name \o SEPARATOR \o "old"
        renamed1 == [n \in ((DOMAIN tabs) \ {table_name}) \cup {old} |->
                        IF n = old THEN tabs[table_name] ELSE tabs[n]]
        renamed2 == [n \in ((DOMAIN renamed1) \ {versioned_table_name}) \cup {table_name} |->
                        IF n = table_name THEN renamed1[versioned_table_name]
                        ELSE renamed1[n]]
    IN  IF table_name \notin DOMAIN tabs \/ old \in DOMAIN tabs THEN None
        ELSE IF versioned_table_name \notin DOMAIN renamed1
                \/ table_name \in DOMAIN renamed1 THEN None
        ELSE Some(RemoveTable(renamed2, old))

NoCall == [op |-> "none", stream_buffer |-> EmptyFn, stream |-> "", version |-> 0,
           fault |-> "none", records |-> <<>>, key_properties |-> <<>>,
           remote_schema |-> EmptyFn, streamed_schema |-> EmptyFn]

NoRet == [stmts |-> <<>>, raised |-> FALSE, flushed |-> FALSE, root |-> None,
          warnings |-> {}, working |-> EmptyFn, records_map |-> EmptyFn,
          reconciled |-> EmptyFn, rows |-> {}]

(* write_batch(stream_buffer), a whole call. *)
WriteBatch(Buffers, FaultSet) ==
    /\ pc = "idle"
    /\ \E stream_buffer \in Buffers, fault \in FaultSet :
         \E out \in write_batch(db, stream_buffer, 1, fault) :
           /\ db' = out.tabs
           /\ txOpen' = IF out.stmts = <<>> THEN txOpen ELSE FALSE
           /\ pre' = db
           /\ call' = [NoCall EXCEPT !.op = "write_batch",
                                     !.stream_buffer = stream_buffer,
                                     !.stream = stream_buffer.stream,
                                     !.fault = fault]
           /\ ret' = [stmts |-> out.stmts, raised |-> out.raised,
                      flushed |-> out.flushed, root |-> out.root,
                      warnings |-> out.warnings, working |-> out.working,
                      records_map |-> EmptyFn, reconciled |-> out.reconciled,
                      rows |-> {}]
    /\ pc' = "done"
    /\ UNCHANGED fetched

(* The version test that never finds the version active. *)
version_active_never(table_metadata, version) == FALSE

(* table_metadata.get('version') == version *)
version_active(table_metadata, version) == The(table_metadata).version = Some(version)

(* activate_version(stream_buffer, version) up to its loop: BEGIN, read    *)
(* the metadata, and fetch the versioned table names.  The two branches    *)
(* that only log return with the transaction still open.                    *)
ActivateBegin(Streams, Versions, FaultSet) ==
    /\ pc = "idle"
    /\ \E stream \in Streams, version \in Versions, fault \in FaultSet :
         LET table_metadata == get_table_metadata([tabs |-> db, ok |-> TRUE], stream)
             this == [NoCall EXCEPT !.op = "activate_version", !.stream = stream,
                                    !.version = version, !.fault = fault]
         IN  /\ pre' = db
             /\ call' = this
             /\ db' = db
             /\ IF fault = "read"
                THEN /\ txOpen' = FALSE
                     /\ pc' = "done"
                     /\ fetched' = {}
                     /\ ret' = [NoRet EXCEPT !.stmts = <<"BEGIN", "ROLLBACK">>,
                                             !.raised = TRUE]
                ELSE IF table_metadata = None
                THEN /\ txOpen' = TRUE
                     /\ pc' = "done"
                     /\ fetched' = {}
                     /\ ret' = [NoRet EXCEPT !.stmts = <<"BEGIN">>,
                                             !.warnings = {"table does not exist"}]
                ELSE IF version_active(table_metadata, version)
                THEN /\ txOpen' = TRUE
                     /\ pc' = "done"
                     /\ fetched' = {}
                     /\ ret' = [NoRet EXCEPT !.stmts = <<"BEGIN">>,
                                             !.warnings = {"already active"}]
                ELSE /\ txOpen' = TRUE
                     /\ pc' = "swap"
                     /\ fetched' = VersionedTables(db, stream, version)
                     /\ ret' = [NoRet EXCEPT !.stmts = <<"BEGIN">>]

(* One iteration of the loop: the three statements and COMMIT run as one   *)
(* batch, which the database applies whole or not at all.  The rows were   *)
(* fetched without ORDER BY, so any remaining table may come next.         *)
ActivateSwap(FaultSet) ==
    /\ pc = "swap"
    /\ \E versioned_table_name \in fetched, fault \in FaultSet :
         LET table_name == LiveName(call.stream, call.version, versioned_table_name)
             swapped == IF fault = "none"
                        THEN SwapTables(db, table_name, versioned_table_name)
                        ELSE None
         IN  IF swapped # None
             THEN /\ db' = COMMIT(db, The(swapped))
                  /\ txOpen' = FALSE
                  /\ pc' = "swap"
                  /\ fetched' = fetched \ {versioned_table_name}
                  /\ ret' = [ret EXCEPT !.stmts = Append(@, "COMMIT")]
             ELSE /\ db' = db
                  /\ txOpen' = FALSE
                  /\ pc' = "done"
                  /\ fetched' = {}
                  /\ ret' = [ret EXCEPT !.stmts = Append(@, "ROLLBACK"),
                                        !.raised = TRUE]
    /\ UNCHANGED <<pre, call>>

(* The loop is over: activate_version returns. *)
ActivateReturn ==
    /\ pc = "swap"
    /\ fetched = {}
    /\ pc' = "done"
    /\ UNCHANGED <<db, txOpen, fetched, pre, call, ret>>

(* The caller resumes after the call returned or raised: the call's frame  *)
(* is gone.                                                                 *)
Return ==
    /\ pc = "done"
    /\ pc' = "idle"
    /\ pre' = EmptyFn
    /\ call' = NoCall
    /\ ret' = NoRet
    /\ UNCHANGED <<db, txOpen, fetched>>

----------------------------------------------------------------------------
(* The inputs of the model: streams, schemas, record messages, batches.    *)

MaxSeq == 2

Seqs == 1..MaxSeq

Column(type, nullable) == [type |-> type, nullable |-> nullable]

Property(name, type, nullable) == [name |-> name, schema |-> Column(type, nullable)]

(* The schema of stream "s": a key, a text field, the sequence, the table  *)
(* version, and a list of objects.                                          *)
StreamSchema ==
    [properties |-> <<Property("id", "integer", FALSE),
                      Property("name", "string", TRUE),
                      Property(SINGER_SEQUENCE, "integer", TRUE),
                      Property(SINGER_TABLE_VERSION, "integer", TRUE)>>,
     lists |-> <<[path |-> "items",
                  properties |-> <<Property("v", "string", TRUE)>>]>>]

Items(values) == List([i \in DOMAIN values |-> [v |-> StrVal(values[i])]])

Message(id, name, sequence, items, version) ==
    [record |-> [id |-> IntVal(id), name |-> StrVal(name), items |-> Items(items)],
     version |-> version,
     sequence |-> Some(sequence)]

Batches(messages) ==
    {<<m>> : m \in messages} \cup {<<m1, m2>> : m1 \in messages, m2 \in messages}

Buffer(stream, key_properties, schema, messages) ==
    [stream |-> stream, key_properties |-> key_properties, schema |-> schema,
     messages |-> messages]

(* The batches of the merge specification: one or two messages, no table   *)
(* version.  Key 1 comes with every sequence in three shapes (one list     *)
(* element, two, none), key 2 in one shape.                                 *)
MergeMessages ==
    {Message(1, shape.name, sequence, shape.items, None) :
        sequence \in Seqs,
        shape \in {[name |-> "a", items |-> <<"x">>],
                   [name |-> "b", items |-> <<"y", "x">>],
                   [name |-> "a", items |-> <<>>]}}
    \cup {Message(2, "a", sequence, <<"x">>, None) : sequence \in Seqs}

MergeBuffers ==
    {Buffer("s", <<"id">>, StreamSchema, messages) : messages \in Batches(MergeMessages)}

Init ==
    /\ db = EmptyFn
    /\ txOpen = FALSE
    /\ pc = "idle"
    /\ fetched = {}
    /\ pre = EmptyFn
    /\ call = NoCall
    /\ ret = NoRet

NextMerge == WriteBatch(MergeBuffers, {"none"}) \/ Return

SpecMerge == Init /\ [][NextMerge]_vars

(* The calls of the main specification: batches of zero, one or two        *)
(* messages of one key, each message with a table version or none; a       *)
(* failure of the database at any of its points; and the activation of any *)
(* version.                                                                  *)
MaxVersion == 2

Versions == 1..MaxVersion

SpecMessages ==
    {Message(1, "a", 1, <<"x">>, version) :
        version \in {None} \cup {Some(v) : v \in Versions}}

SpecBuffers ==
    {Buffer("s", <<"id">>, StreamSchema, messages) :
        messages \in {<<>>} \cup Batches(SpecMessages)}

Next ==
    \/ WriteBatch(SpecBuffers, Faults)
    \/ ActivateBegin({"s"}, Versions, {"none", "read"})
    \/ ActivateSwap({"none", "load"})
    \/ ActivateReturn
    \/ Return

Spec == Init /\ [][Next]_vars

(* The calls of the key specification: batches of one message, with a      *)
(* table version or none, of a stream that comes with its key properties   *)
(* as one name, as two names and as the two names in the other order, and  *)
(* with the key as an integer and as a string.                              *)
KeyTypeSchema == [StreamSchema EXCEPT !.properties[1] = Property("id", "string", FALSE)]

KeyBuffers ==
    {Buffer("s", shape[1], shape[2], <<message>>) :
        message \in SpecMessages,
        shape \in {<<<<"id">>, StreamSchema>>,
                   <<<<"id">>, KeyTypeSchema>>,
                   <<<<"id", "name">>, StreamSchema>>,
                   <<<<"name", "id">>, StreamSchema>>}}

NextKeys == WriteBatch(KeyBuffers, {"none", "load"}) \/ Return

SpecKeys == Init /\ [][NextKeys]_vars

----------------------------------------------------------------------------
(* What the claims speak of: the call that just ended, the rows its batch  *)
(* staged, and the keys of a table.                                         *)

WriteBatchDone == pc = "done" /\ call.op = "write_batch"

Committed == WriteBatchDone /\ ~ret.raised

Untag(row) == [c \in DOMAIN row |-> row[c].v]

(* The rows the batch of the current call staged for `table`, in the order *)
(* of the denesting traversal.                                              *)
StagedSeq(table) ==
    LET stream_buffer == call.stream_buffer
        processed == [i \in DOMAIN stream_buffer.messages |->
                         process_record_message(stream_buffer.messages[i], 1)]
        numbers == UNION {RecordVersion(processed[i]) : i \in DOMAIN processed}
        latest(record) == \A v \in numbers : RecordVersion(record) = Some(v) => 
                              \A w \in numbers : w <= v
        of_version(record) == numbers = {} \/ (RecordVersion(record) # None /\ latest(record))
        map == denest_records(The(ret.root), SelectSeq(processed, of_version),
                              stream_buffer.key_properties).map
    IN  IF table \in DOMAIN map
        THEN [i \in DOMAIN map[table] |-> Untag(map[table][i])]
        ELSE <<>>

StagedRows(table) == Range(StagedSeq(table))

(* The rows of `table` before the call; none when the call created it. *)
PreRows(table) == IF table \in DOMAIN pre THEN pre[table].rows ELSE {}

KeyColumns(tabs, table) == Range(The(tabs[table].comment).key_properties)

LevelColumns(tabs, table) == {c \in DOMAIN tabs[table].cols : IsLevelColumn(c)}

RowsOfKey(rows, columns, key) == {r \in rows : KeyOf(r, columns) = key}

KeysOf(rows, columns) == {KeyOf(r, columns) : r \in rows}

(* Every staged row of the key has a sequence strictly lower than every    *)
(* target row of the key, and there is such a target row.                   *)
AllLower(staged, target) ==
    /\ target # {}
    /\ \A t \in staged, r \in target : t[SINGER_SEQUENCE] < r[SINGER_SEQUENCE]

MaxSequence(rows) ==
    CHOOSE q \in {r[SINGER_SEQUENCE] : r \in rows} :
        \A r \in rows : r[SINGER_SEQUENCE] <= q

----------------------------------------------------------------------------
(* C1: across batches a staged row never replaces a landed row of higher   *)
(* sequence: in each table, the root table or a child table, for every key *)
(* K of which the table holds rows and whose rows staged for the table all *)
(* have a sequence strictly lower than those rows, the table's rows of key *)
(* K after the merge are exactly those from before the batch.              *)
C1_LowerSequenceKeepsRows ==
    Committed =>
        \A table \in DOMAIN pre :
            LET K == KeyColumns(pre, table)
            IN  \A key \in KeysOf(StagedRows(table), K) :
                    AllLower(RowsOfKey(StagedRows(table), K, key),
                             RowsOfKey(pre[table].rows, K, key))
                    => RowsOfKey(db[table].rows, K, key)
                           = RowsOfKey(pre[table].rows, K, key)

(* The key columns' values that the rows of `table` have for the record    *)
(* key `key`: the key itself in the root table, the source key columns in  *)
(* a child table.                                                            *)
KeyIn(table, key) ==
    IF table = call.stream THEN key
    ELSE [c \in {SINGER_SOURCE_PK_PREFIX \o p : p \in DOMAIN key} |->
             key[DropPrefix(c, Len(SINGER_SOURCE_PK_PREFIX))]]

(* The rows of the record key `key` in all of the tables. *)
RowsOfRecord(rows_of(_), key) ==
    UNION {RowsOfKey(rows_of(table), DOMAIN KeyIn(table, key), KeyIn(table, key)) :
               table \in DOMAIN db}

(* C1 as the claim states it, over the tables together: for every record   *)
(* key K, if every row staged with key K, for whichever table, has a       *)
(* sequence strictly lower than the target rows of key K, in whichever     *)
(* table, then in the root table and in every child table the rows of key  *)
(* K are exactly those from before the batch.                               *)
C1_AcrossTables ==
    Committed =>
        \A key \in KeysOf(StagedRows(call.stream),
                          Range(call.stream_buffer.key_properties)) :
            AllLower(RowsOfRecord(StagedRows, key), RowsOfRecord(PreRows, key))
            => \A table \in DOMAIN db :
                   RowsOfKey(db[table].rows, DOMAIN KeyIn(table, key), KeyIn(table, key))
                       = RowsOfKey(PreRows(table), DOMAIN KeyIn(table, key),
                                   KeyIn(table, key))

(* C1's case: a committed batch staged, for the root table and for the     *)
(* child table, rows of a key whose target rows all have a higher sequence. *)
C1_Witness ==
    /\ Committed
    /\ \A table \in {"s", "s__items"} :
           /\ table \in DOMAIN pre
           /\ \E key \in KeysOf(StagedRows(table), KeyColumns(pre, table)) :
                  AllLower(RowsOfKey(StagedRows(table), KeyColumns(pre, table), key),
                           RowsOfKey(pre[table].rows, KeyColumns(pre, table), key))

(* The indices of the staged rows of `table` whose key and level index     *)
(* columns have the values g.                                                *)
SameGroup(table, g) ==
    {i \in DOMAIN StagedSeq(table) : KeyOf(StagedSeq(table)[i], DOMAIN g) = g}

(* The staged rows of the group g stay out of the target: the target held  *)
(* rows of their key, all of a higher sequence than every staged row of    *)
(* that key.                                                                 *)
StaysOut(table, g) ==
    LET K == KeyColumns(db, table)
        key == Restrict(g, K)
    IN  AllLower(RowsOfKey(StagedRows(table), K, key),
                 RowsOfKey(PreRows(table), K, key))

(* Exactly one row of the group g is in the target, and it is a staged row *)
(* of the highest sequence among the staged rows of g.                      *)
HighestLanded(table, g) ==
    LET staged == StagedSeq(table)
        same == SameGroup(table, g)
        top == MaxSequence({staged[i] : i \in same})
    IN  \E i \in same :
            /\ staged[i][SINGER_SEQUENCE] = top
            /\ RowsOfKey(db[table].rows, DOMAIN g, g) = {staged[i]}

GroupColumns(table) == KeyColumns(db, table) \cup LevelColumns(db, table)

(* C2: within one batch, for every key (with the level index columns in a  *)
(* child table) that several staged rows share, the target holds after the *)
(* merge exactly one row of that key and it is a staged row of the highest *)
(* sequence among them, replacing any older target row of the key; unless  *)
(* the target held rows of the key columns' values all of a sequence       *)
(* higher than every staged row of those values, and then none lands.      *)
C2_HighestSequenceLands ==
    Committed =>
        \A table \in DOMAIN db :
            \A g \in KeysOf(StagedRows(table), GroupColumns(table)) :
                Cardinality(SameGroup(table, g)) > 1 =>
                    IF StaysOut(table, g)
                    THEN RowsOfKey(db[table].rows, DOMAIN g, g)
                             = RowsOfKey(PreRows(table), DOMAIN g, g)
                    ELSE HighestLanded(table, g)

(* C2 as the claim states it: one staged row of the highest sequence lands *)
(* for every shared key, whatever the target held.                          *)
C2_AlwaysLands ==
    Committed =>
        \A table \in DOMAIN db :
            \A g \in KeysOf(StagedRows(table), GroupColumns(table)) :
                Cardinality(SameGroup(table, g)) > 1 => HighestLanded(table, g)

(* C2's case: two staged rows of different sequences share a key and level *)
(* index of the child table, the target held a row of that key and index   *)
(* of a sequence not above theirs, and the batch committed.                 *)
C2_Witness ==
    /\ Committed
    /\ "s__items" \in DOMAIN pre
    /\ \E g \in KeysOf(StagedRows("s__items"), GroupColumns("s__items")) :
           /\ \E i, j \in SameGroup("s__items", g) :
                  StagedSeq("s__items")[i][SINGER_SEQUENCE]
                      < StagedSeq("s__items")[j][SINGER_SEQUENCE]
           /\ \E r \in RowsOfKey(pre["s__items"].rows, DOMAIN g, g) :
                  \E i \in SameGroup("s__items", g) :
                      r[SINGER_SEQUENCE] <= StagedSeq("s__items")[i][SINGER_SEQUENCE]
           /\ ~StaysOut("s__items", g)

(* C3: when staged rows of one key tie in sequence at the highest value,   *)
(* the row that comes later in the batch is the one that lands.             *)
C3_LaterRowWinsTie ==
    Committed =>
        \A table \in DOMAIN db :
            \A g \in KeysOf(StagedRows(table), GroupColumns(table)) :
                LET staged == StagedSeq(table)
                    same == SameGroup(table, g)
                    top == {i \in same : staged[i][SINGER_SEQUENCE]
                                = MaxSequence({staged[j] : j \in same})}
                    last == CHOOSE i \in top : \A j \in top : j <= i
                IN  (Cardinality(top) > 1 /\ ~StaysOut(table, g)) =>
                        RowsOfKey(db[table].rows, DOMAIN g, g) = {staged[last]}

(* C4: applying the batch of a committed call once more leaves the tables  *)
(* as that call left them.                                                   *)
C4_Idempotent ==
    Committed =>
        \A again \in write_batch(db, call.stream_buffer, 1, "none") :
            ~again.raised /\ again.tabs = db

(* The rows of the key columns' values `key` that a committed batch leaves *)
(* in `table`: as many as before when nothing of the key was staged or the *)
(* staged rows stay out, else one per level index staged for the key.      *)
RowCountOfKey(table, key) ==
    LET K == KeyColumns(db, table)
        staged == RowsOfKey(StagedRows(table), K, key)
        before == RowsOfKey(PreRows(table), K, key)
    IN  IF staged = {} \/ AllLower(staged, before)
        THEN Cardinality(before)
        ELSE Cardinality(KeysOf(staged, GroupColumns(table)))

(* C5: after a committed batch the root table holds as many rows as there  *)
(* are keys among its rows before and the staged rows; in every table the  *)
(* rows of one key are as many as before when its staged rows stay out,    *)
(* and otherwise as many as the level indices staged for the key, so a     *)
(* parent sent again with fewer list elements leaves fewer child rows.      *)
C5_RowCount ==
    Committed =>
        \A table \in DOMAIN db :
            LET K == KeyColumns(db, table)
                keys == KeysOf(PreRows(table), K) \cup KeysOf(StagedRows(table), K)
            IN  /\ LevelColumns(db, table) = {} =>
                       Cardinality(db[table].rows) = Cardinality(keys)
                /\ \A key \in keys :
                       Cardinality(RowsOfKey(db[table].rows, K, key))
                           = RowCountOfKey(table, key)

(* C5 as the claim states it: every table holds as many rows as the union  *)
(* of its rows before and the staged rows under key and level index         *)
(* identity.                                                                 *)
C5_UnionCount ==
    Committed =>
        \A table \in DOMAIN db :
            Cardinality(db[table].rows)
                = Cardinality(KeysOf(PreRows(table), GroupColumns(table))
                                  \cup KeysOf(StagedRows(table), GroupColumns(table)))

(* C5's case: a committed batch sent a parent again with fewer list        *)
(* elements than the child table held for it, and its rows landed.          *)
C5_Witness ==
    /\ Committed
    /\ "s__items" \in DOMAIN pre
    /\ \E key \in KeysOf(StagedRows("s__items"), KeyColumns(db, "s__items")) :
           LET K == KeyColumns(db, "s__items")
               staged == RowsOfKey(StagedRows("s__items"), K, key)
               before == RowsOfKey(pre["s__items"].rows, K, key)
           IN  /\ ~AllLower(staged, before)
               /\ Cardinality(KeysOf(staged, GroupColumns("s__items")))
                      < Cardinality(before)
               /\ Cardinality(RowsOfKey(db["s__items"].rows, K, key))
                      < Cardinality(before)

----------------------------------------------------------------------------
(* The claims on the orchestrator and the activator.                        *)

NonEmptyBatch == Len(call.stream_buffer.messages) > 0

LiveExists == call.stream \in DOMAIN pre /\ pre[call.stream].comment # None

(* The version the sidecar metadata of the live table records. *)
LiveVersion == IF LiveExists THEN The(pre[call.stream].comment).version ELSE None

(* The key property names of the batch are not those the live table        *)
(* records, as sets.                                                        *)
KeyNamesDiffer ==
    /\ LiveExists
    /\ Range(call.stream_buffer.key_properties) # KeyColumns(pre, call.stream)

(* The stream schema gives a key a type other than its column's. *)
KeyTypesDiffer ==
    /\ LiveExists
    /\ \E i \in DOMAIN call.stream_buffer.key_properties :
           LET key == call.stream_buffer.key_properties[i]
           IN  \/ key \notin DOMAIN pre[call.stream].cols
               \/ pre[call.stream].cols[key]
                      # to_sql(The(PropSchema(call.stream_buffer.schema.properties, key)))

(* The versions of the records of the batch, None for a record without.    *)
BatchVersions ==
    {call.stream_buffer.messages[i].version : i \in DOMAIN call.stream_buffer.messages}

(* The target version of the batch: the maximum record version, if any. *)
TargetVersion ==
    IF UNION BatchVersions = {} THEN None
    ELSE Some(CHOOSE v \in UNION BatchVersions : \A w \in UNION BatchVersions : w <= v)

(* C6: write_batch is all-or-nothing.  A call that raises has issued       *)
(* ROLLBACK, leaves every table's rows, columns and sidecar metadata as    *)
(* they were before the call and does not flush the buffer; the buffer is  *)
(* flushed exactly when COMMIT was executed, and a call on an empty buffer *)
(* executes nothing and does not flush.                                     *)
C6_AllOrNothing ==
    WriteBatchDone =>
        /\ ret.raised =>
               /\ db = pre
               /\ ~ret.flushed
               /\ ret.stmts = <<"BEGIN", "ROLLBACK">>
        /\ ret.flushed <=> (ret.stmts = <<"BEGIN", "COMMIT">>)
        /\ (NonEmptyBatch /\ ~ret.raised) => (ret.flushed /\ db = ret.working)
        /\ ~NonEmptyBatch => (ret.stmts = <<>> /\ ~ret.raised /\ db = pre)

(* C6's case: a step failed after the transaction had changed tables, the  *)
(* call raised and the tables are as before.                                *)
C6_Witness ==
    /\ WriteBatchDone
    /\ ret.raised
    /\ ret.working # pre
    /\ pre # EmptyFn
    /\ db = pre

(* C7: the key definition of an existing live table never changes.  A      *)
(* batch whose key property names are not, as a set, those of the sidecar  *)
(* metadata, or whose schema gives a key a type other than its column's,   *)
(* raises before the transaction changed anything and leaves every table   *)
(* as it was; and after any call the live table records the key            *)
(* properties and has the key columns it had before.                        *)
C7_KeyDefinitionNeverChanges ==
    (WriteBatchDone /\ NonEmptyBatch /\ LiveExists) =>
        /\ (KeyNamesDiffer \/ KeyTypesDiffer) =>
               (ret.raised /\ ret.working = pre /\ db = pre)
        /\ call.stream \in DOMAIN db
        /\ db[call.stream].comment # None
        /\ KeyColumns(db, call.stream) = KeyColumns(pre, call.stream)
        /\ \A key \in KeyColumns(pre, call.stream) :
               /\ key \in DOMAIN db[call.stream].cols
               /\ db[call.stream].cols[key] = pre[call.stream].cols[key]

(* C7's case: no injected failure, a live table with rows, and a batch     *)
(* with other key property names that raised.                               *)
C7_Witness ==
    /\ WriteBatchDone
    /\ NonEmptyBatch
    /\ call.fault = "none"
    /\ KeyNamesDiffer
    /\ ~KeyTypesDiffer
    /\ pre[call.stream].rows # {}
    /\ ret.raised

(* The batch is staged under the versioned name. *)
StagedVersion ==
    /\ LiveVersion # None
    /\ TargetVersion # None
    /\ The(TargetVersion) > The(LiveVersion)

(* C8: with no failure of the database and the key definition unchanged,   *)
(* a batch commits; it is written to <stream>__<v>, the live tables left   *)
(* as they were, exactly when the live table records a version and the     *)
(* target version v of the batch is greater; in every other case, a batch  *)
(* without versions on a live table with a version included, it is         *)
(* written to <stream>.                                                     *)
C8_VersionStaging ==
    (WriteBatchDone /\ NonEmptyBatch /\ call.fault = "none"
         /\ ~KeyNamesDiffer /\ ~KeyTypesDiffer) =>
        /\ ~ret.raised
        /\ ret.root = Some(IF StagedVersion
                           THEN call.stream \o SEPARATOR \o ToString(The(TargetVersion))
                           ELSE call.stream)
        /\ StagedVersion =>
               \A table \in DOMAIN pre :
                   ~StartsWith(table, call.stream \o SEPARATOR \o ToString(The(TargetVersion)))
                       => (table \in DOMAIN db /\ db[table] = pre[table])

(* The batch has records of more than one version, or of a version below   *)
(* the live table's.                                                        *)
VersionAnomaly ==
    \/ Cardinality(BatchVersions) > 1
    \/ /\ LiveVersion # None
       /\ \E v \in UNION BatchVersions : v < The(LiveVersion)

(* C9: version anomalies are advisory.  With no failure of the database    *)
(* and the key definition unchanged, a batch with records of more than one *)
(* version (a record without a version counting as one) or of a version    *)
(* below the live table's commits, logs a warning and lands rows of the    *)
(* maximum version only.                                                    *)
C9_VersionAnomaliesAdvisory ==
    (WriteBatchDone /\ NonEmptyBatch /\ call.fault = "none"
         /\ ~KeyNamesDiffer /\ ~KeyTypesDiffer /\ VersionAnomaly) =>
        /\ ~ret.raised
        /\ ret.warnings # {}
        /\ \A row \in db[The(ret.root)].rows \ PreRows(The(ret.root)) :
               Get(row, SINGER_TABLE_VERSION) = TargetVersion

ActivateDone == pc = "done" /\ call.op = "activate_version"

(* The tables <stream>__<v> and <stream>__<v>__<path>. *)
StagedFamily(tabs) ==
    LET root == call.stream \o SEPARATOR \o ToString(call.version)
    IN  {table \in DOMAIN tabs : table = root \/ StartsWith(table, root \o SEPARATOR)}

EndsWith(s, suffix) ==
    Len(s) >= Len(suffix) /\ SubSeq(s, Len(s) - Len(suffix) + 1, Len(s)) = suffix

(* The call had a staged family to activate over a live table of another   *)
(* version.                                                                  *)
Activatable ==
    /\ call.stream \o SEPARATOR \o ToString(call.version) \in DOMAIN pre
    /\ LiveExists
    /\ LiveVersion # Some(call.version)

(* C10: after activate_version(stream, v) returned without raising, when   *)
(* the staged family of v existed and the live table recorded another      *)
(* version: the contents of every staged table are under its live name, no *)
(* table of the staged family and no table ending in __old remains, and    *)
(* the live table records version v.                                        *)
C10_Activated ==
    (ActivateDone /\ ~ret.raised /\ Activatable) =>
        /\ \A table \in StagedFamily(pre) :
               LET live == call.stream \o DropPrefix(table,
                               Len(call.stream \o SEPARATOR \o ToString(call.version)))
               IN  live \in DOMAIN db /\ db[live] = pre[table]
        /\ StagedFamily(db) = {}
        /\ \A table \in DOMAIN db : ~EndsWith(table, SEPARATOR \o "old")
        /\ db[call.stream].comment # None
        /\ The(db[call.stream].comment).version = Some(call.version)

(* C10's case: a staged root table and a staged child table, with rows     *)
(* other than the live ones, were activated.                                *)
C10_Witness ==
    /\ ActivateDone
    /\ ~ret.raised
    /\ Activatable
    /\ Cardinality(StagedFamily(pre)) > 1
    /\ \A table \in StagedFamily(pre) : pre[table].rows # {}
    /\ db[call.stream] # pre[call.stream]

----------------------------------------------------------------------------
(* The claims on the transactions of the activator.                         *)

Activating == call.op = "activate_version" /\ pc \in {"swap", "done"}

(* The number of swaps the call in progress has committed. *)
SwapsCommitted == Cardinality({i \in DOMAIN ret.stmts : ret.stmts[i] = "COMMIT"})

(* The live name of a table of the family staged for version v. *)
LiveOf(stream, v, table) == stream \o DropPrefix(table, Len(versioned_root_table(stream, v)))

(* No table is half-swapped: no table ending in __old, and under every     *)
(* live name there was before the call there is a table.                    *)
NoHalfSwap ==
    /\ \A table \in DOMAIN db : ~EndsWith(table, SEPARATOR \o "old")
    /\ \A table \in DOMAIN pre :
           table \notin StagedFamily(pre) => table \in DOMAIN db

AlreadyActive == LiveVersion = Some(call.version)

(* C12: activation is resumable.  Whenever activate_version(stream, v)     *)
(* returns without raising on a stream that has a live table, a call made  *)
(* after an activation of v that failed part-way included, every table of  *)
(* the family staged for v has been swapped: no <stream>__<v>... table is  *)
(* left staged.                                                             *)
C12_Resumable ==
    (ActivateDone /\ ~ret.raised /\ LiveExists) => StagedFamily(db) = {}


(* The call in progress found no sidecar metadata for the stream's table. *)
NoSidecar == ~LiveExists

(* What a second activate_version(stream, v), made in this state, would    *)
(* do: it finds no sidecar or the version active, or it has no table to    *)
(* swap.                                                                    *)
SecondCallChangesNothing ==
    \/ call.stream \notin DOMAIN db
    \/ db[call.stream].comment = None
    \/ The(db[call.stream].comment).version = Some(call.version)
    \/ VersionedTables(db, call.stream, call.version) = {}

(* C13: when the stream's table has no sidecar metadata, or its sidecar    *)
(* version equals the requested version, activate_version does not raise   *)
(* and leaves every table, its name, rows, columns and metadata, as it     *)
(* was; and after any activate_version that returned without raising, a    *)
(* second call with the same version has nothing to change.                 *)
C13_NoOpBranches ==
    /\ (ActivateDone /\ call.fault = "none" /\ (NoSidecar \/ AlreadyActive)) =>
           (db = pre /\ ~ret.raised)
    /\ (ActivateDone /\ ~ret.raised) => SecondCallChangesNothing

(* C13's case: activate_version was called with the version the live      *)
(* table already records, while tables of that version were still staged.  *)
C13_Witness ==
    /\ ActivateDone
    /\ call.fault = "none"
    /\ AlreadyActive
    /\ StagedFamily(pre) # {}
    /\ db = pre
    /\ ~ret.raised


----------------------------------------------------------------------------
(* The record transformer on its own: denest_records applied to one        *)
(* processed record of a stream.                                            *)

(* denest_records(stream, records, records_map, key_properties), a whole   *)
(* call; a TypeError or KeyError inside it is the call raising.            *)
DenestRecords(Records, Keys) ==
    /\ pc = "idle"
    /\ \E record \in Records, key_properties \in Keys :
         LET out == denest_records("s", <<record>>, key_properties)
         IN  /\ call' = [NoCall EXCEPT !.op = "denest_records", !.stream = "s",
                                       !.records = <<record>>,
                                       !.key_properties = key_properties]
             /\ ret' = [NoRet EXCEPT !.raised = ~out.ok, !.records_map = out.map]
    /\ pc' = "done"
    /\ pre' = db
    /\ UNCHANGED <<db, txOpen, fetched>>

MaxList == 2

(* The lists of at most MaxList elements of S. *)
Lists(S) == UNION {[1..n -> S] : n \in 0..MaxList}

(* The objects of the innermost lists. *)
NestedLeaves == {[w |-> StrVal("p")], [w |-> StrVal("q")]}

(* The objects of the list "items": a scalar, and for some a list "sub". *)
NestedElements ==
    {[v |-> StrVal(x)] : x \in {"x", "y"}}
        \cup {[v |-> StrVal("x"), sub |-> List(l)] : l \in Lists(NestedLeaves)}

(* The values of the property "o": objects of depth one, two and three,    *)
(* and an object that holds a list.                                         *)
NestedObjects ==
    { Dict([a |-> StrVal("u")]),
      Dict([a |-> StrVal("u"), l |-> List(<<[v |-> StrVal("x")], [v |-> StrVal("y")]>>)]),
      Dict([a |-> StrVal("u"), i |-> Dict([b |-> StrVal("t")])]),
      Dict([i |-> Dict([j |-> Dict([c |-> StrVal("t")])])]) }

(* Records as process_record_message leaves them: with every list        *)
(* "items", and with every object "o" beside a list of at most one         *)
(* element.                                                                 *)
NestedRecords ==
    LET base == {[id |-> IntVal(n), name |-> StrVal("a"), _sdc_sequence |-> IntVal(1)] :
                     n \in 1..2}
        listed == base \cup {SetKey(r, "items", List(l)) :
                                 r \in base, l \in Lists(NestedElements)}
        short == base \cup {SetKey(r, "items", List(<<e>>)) :
                                r \in base, e \in NestedElements}
    IN  listed \cup {SetKey(r, "o", o) : r \in short, o \in NestedObjects}

NestedKeys == {<<"id">>, <<"id", "name">>}

NextDenest == DenestRecords(NestedRecords, NestedKeys) \/ Return

SpecDenest == Init /\ [][NextDenest]_vars


----------------------------------------------------------------------------
(* The claims on denesting.                                                 *)

Denested == pc = "done" /\ call.op = "denest_records"

TheRecord == call.records[1]

(* The rows denesting appended to a table, none when the table is absent   *)
(* from the records map.                                                    *)
RowsIn(table) == IF table \in DOMAIN ret.records_map THEN ret.records_map[table] ELSE <<>>

(* The columns every row of a child table inherits from the root record:   *)
(* its value of every key property, and its sequence.                       *)
Inherited ==
    [f \in {"_sdc_source_key_" \o call.key_properties[j] : j \in DOMAIN call.key_properties}
             \cup {"_sdc_sequence"} |->
        IF f = "_sdc_sequence" THEN TheRecord["_sdc_sequence"]
        ELSE TheRecord[DropPrefix(f, Len("_sdc_source_key_"))]]

(* The row of the i-th object of a list of objects with scalar fields. *)
ElementRow(element, scalars, i) ==
    Update(Restrict(element, scalars), SetKey(Inherited, "_sdc_level_0_id", IntVal(i - 1)))

(* The rows of a list of objects, in list order. *)
ElementRows(list, scalars) == [i \in DOMAIN list |-> ElementRow(list[i], scalars, i)]

(* The rows of the lists "sub" of the elements i, i + 1, ... of "items",   *)
(* parent after parent, each list in its order.                             *)
RECURSIVE SubRows(_, _)
SubRows(items, i) ==
    IF i > Len(items) THEN <<>>
    ELSE LET sub == IF "sub" \in DOMAIN items[i] THEN items[i].sub.v ELSE <<>>
         IN  [m \in DOMAIN sub |->
                 Update(sub[m], SetKey(SetKey(Inherited, "_sdc_level_0_id", IntVal(i - 1)),
                                       "_sdc_level_1_id", IntVal(m - 1)))]
             \o SubRows(items, i + 1)

ItemsOf(record) == IF "items" \in DOMAIN record THEN record.items.v ELSE <<>>

ObjectListOf(record) ==
    IF "o" \in DOMAIN record /\ "l" \in DOMAIN record.o.v THEN record.o.v.l.v ELSE <<>>

(* C14: when denesting of a record completes, the root table has exactly   *)
(* one row; a record without lists adds no row to any other table; a list  *)
(* of n objects at path p adds exactly n rows to root__p, in list order,   *)
(* each with the root record's value of every key property under          *)
(* _sdc_source_key_<k> and with _sdc_level_0_id 0, 1, .., n-1; the rows of *)
(* a list inside a list element carry the _sdc_level_0_id of their parent  *)
(* element and their own index as _sdc_level_1_id.                          *)
C14_ListsDenested ==
    (Denested /\ ~ret.raised) =>
        /\ Len(RowsIn("s")) = 1
        /\ (ItemsOf(TheRecord) = <<>> /\ ObjectListOf(TheRecord) = <<>>) =>
               DOMAIN ret.records_map = {"s"}
        /\ RowsIn("s__items") = ElementRows(ItemsOf(TheRecord), {"v"})
        /\ RowsIn("s__o__l") = ElementRows(ObjectListOf(TheRecord), {"v"})
        /\ RowsIn("s__items__sub") = SubRows(ItemsOf(TheRecord), 1)
        /\ DOMAIN ret.records_map \subseteq {"s", "s__items", "s__o__l", "s__items__sub"}

(* C14's case: a record with a list of two objects, of which the second    *)
(* holds a list of two objects.                                             *)
C14_Witness ==
    /\ Denested
    /\ ~ret.raised
    /\ Len(ItemsOf(TheRecord)) = 2
    /\ "sub" \notin DOMAIN ItemsOf(TheRecord)[1]
    /\ "sub" \in DOMAIN ItemsOf(TheRecord)[2]
    /\ Len(RowsIn("s__items__sub")) = 2
    /\ RowsIn("s__items__sub")[2]["_sdc_level_0_id"] = IntVal(1)
    /\ RowsIn("s__items__sub")[2]["_sdc_level_1_id"] = IntVal(1)


(* The scalar leaves of an object, under the names that join the path      *)
(* segments with the separator.                                             *)
RECURSIVE Inlined(_, _, _)
Inlined(path, object, todo) ==
    IF todo = {} THEN EmptyFn
    ELSE LET prop == CHOOSE f \in todo : TRUE
             value == object[prop]
             name == path \o "__" \o prop
             rest == Inlined(path, object, todo \ {prop})
         IN  CASE value.k = "dict" -> Update(rest, Inlined(name, value.v, DOMAIN value.v))
               [] value.k \in {"list", "none"} -> rest
               [] OTHER -> SetKey(rest, name, value)

(* The scalar leaves of the object "o" of the record. *)
ObjectLeaves ==
    IF "o" \in DOMAIN TheRecord
    THEN Inlined("o", TheRecord.o.v, DOMAIN TheRecord.o.v)
    ELSE EmptyFn

(* The objects of the record nest no deeper than one level. *)
FlatObjects ==
    "o" \in DOMAIN TheRecord =>
        \A f \in DOMAIN TheRecord.o.v : TheRecord.o.v[f].k # "dict"

(* C15: denesting of a record with objects, nested to any depth,           *)
(* completes without error; every scalar leaf is in the root table's row   *)
(* under its compound name, and a list inside an object has its rows in    *)
(* the child table named by its path.                                       *)
C15_ObjectsInlined ==
    Denested =>
        /\ ~ret.raised
        /\ Len(RowsIn("s")) = 1
        /\ \A f \in DOMAIN ObjectLeaves :
               f \in DOMAIN RowsIn("s")[1] /\ RowsIn("s")[1][f] = ObjectLeaves[f]
        /\ Len(RowsIn("s__o__l")) = Len(ObjectListOf(TheRecord))


----------------------------------------------------------------------------
(* The batches of the schema specification: stream "s" with a column "c"   *)
(* whose declared type and nullability change from batch to batch, and a   *)
(* property that is named like a mapped column of "c".                      *)

SchemaTypes == {"integer", "string", "number"}

(* A value a record holds for a property of the type. *)
ValueOf(type) == IF type = "string" THEN StrVal("a") ELSE IntVal(7)

(* The properties of the stream schema, in the order of the dict: the key, *)
(* the sequence, "c" in every type or not at all, and "c__s" before "c",   *)
(* after it, or not at all.                                                 *)
SchemaShapes ==
    LET key == <<Property("id", "integer", FALSE)>>
        sequence == <<Property(SINGER_SEQUENCE, "integer", TRUE)>>
        named == <<Property("c" \o SEPARATOR \o "s", "string", TRUE)>>
        cs == {<<>>} \cup {<<Property("c", type, nullable)>> :
                              type \in SchemaTypes, nullable \in BOOLEAN}
    IN  {key \o c \o sequence : c \in cs}
            \cup {key \o named \o c \o sequence : c \in cs}
            \cup {key \o c \o named \o sequence : c \in cs}

(* One record that holds a value for every declared property. *)
SchemaMessage(id, properties) ==
    [record |-> [f \in {properties[i].name : i \in DOMAIN properties}
                            \ {SINGER_SEQUENCE} |->
                    IF f = "id" THEN IntVal(id)
                    ELSE ValueOf(The(PropSchema(properties, f)).type)],
     version |-> None,
     sequence |-> Some(1)]

SchemaBuffers ==
    {Buffer("s", key_properties, [properties |-> properties, lists |-> <<>>],
            <<SchemaMessage(id, properties)>>) :
        id \in 1..2, properties \in SchemaShapes, key_properties \in {<<"id">>, <<>>}}

NextSchema == WriteBatch(SchemaBuffers, {"none"}) \/ Return

SpecSchema == Init /\ [][NextSchema]_vars


----------------------------------------------------------------------------
(* The claims on the schema reconciler.  The table of stream "s" before    *)
(* the call is compared with the table as the transaction saw it when the  *)
(* reconciler returned, before the rows of the batch were loaded.           *)

(* write_batch reconciled the schema of an existing table of the stream. *)
Reconciled ==
    /\ WriteBatchDone
    /\ call.stream \in DOMAIN pre
    /\ call.stream \in DOMAIN ret.reconciled

TableBefore == pre[call.stream]

TableAfter == ret.reconciled[call.stream]

(* The schema the batch declares for a property, an optional value. *)
IncomingSchema(name) ==
    LET properties == call.stream_buffer.schema.properties
        hit == {i \in DOMAIN properties : properties[i].name = name}
    IN  IF hit = {} THEN None ELSE Some(properties[CHOOSE i \in hit : TRUE].schema)

(* The SQL type of a declared type and the short tag of an SQL type. *)
SqlOf(type) ==
    CASE type = "integer" -> "bigint"
      [] type = "string" -> "text"
      [] type = "number" -> "double precision"
      [] OTHER -> "boolean"

TagOf(sql_type) ==
    CASE sql_type = "bigint" -> "i"
      [] sql_type = "text" -> "s"
      [] sql_type = "double precision" -> "f"
      [] OTHER -> "b"

(* The mapped column names of "c" for its existing and its incoming type. *)
ExistingMapped == "c__" \o TagOf(TableBefore.cols["c"].sql)

IncomingMapped == "c__" \o TagOf(SqlOf(The(IncomingSchema("c")).type))

(* The reconciler split column "c": the table had it and has it no more. *)
SplitDone ==
    /\ Reconciled
    /\ "c" \in DOMAIN TableBefore.cols
    /\ "c" \notin DOMAIN TableAfter.cols

(* A row after the split: its value of "c", if any, under the mapped name  *)
(* of the existing type, and nothing under "c".                             *)
RowAfterSplit(r) ==
    [f \in ((DOMAIN r) \ {"c"}) \cup (IF "c" \in DOMAIN r THEN {ExistingMapped} ELSE {}) |->
        IF f = ExistingMapped THEN r["c"] ELSE r[f]]

(* C16: after the reconciler split column c (existing type t1, incoming    *)
(* type t2) column c is gone, the columns c__short(t1) and c__short(t2)    *)
(* exist with the types t1 and t2 and are nullable, every row that was in  *)
(* the table holds its prior value of c under c__short(t1), null where c   *)
(* was null, and null under c__short(t2); no other value of a row changed. *)
C16_SplitPreservesData ==
    SplitDone =>
        /\ IncomingSchema("c") # None
        /\ ExistingMapped # IncomingMapped
        /\ {ExistingMapped, IncomingMapped} \subseteq DOMAIN TableAfter.cols
        /\ TableAfter.cols[ExistingMapped] = [sql |-> TableBefore.cols["c"].sql, nullable |-> TRUE]
        /\ TableAfter.cols[IncomingMapped]
               = [sql |-> SqlOf(The(IncomingSchema("c")).type), nullable |-> TRUE]
        /\ TableAfter.rows = {RowAfterSplit(r) : r \in TableBefore.rows}
        /\ \A r \in TableAfter.rows : IncomingMapped \notin DOMAIN r

(* C16's case: a split of a table of two rows, both with a value of c. *)
C16_Witness ==
    /\ SplitDone
    /\ ~ret.raised
    /\ Cardinality(TableBefore.rows) = 2
    /\ \A r \in TableBefore.rows : "c" \in DOMAIN r
    /\ \A r \in TableAfter.rows : ExistingMapped \in DOMAIN r


(* A step keeps the nullability of the columns of the tables it keeps: a   *)
(* column that was nullable, or was not in the table, is nullable if the   *)
(* table has it after the step.                                             *)
NullableKept ==
    \A table \in (DOMAIN db) \cap (DOMAIN db') :
        \A c \in DOMAIN db'[table].cols :
            (c \notin DOMAIN db[table].cols \/ db[table].cols[c].nullable)
                => db'[table].cols[c].nullable

(* C17: over any sequence of batches no step takes a column name of a      *)
(* table from nullable to non-nullable, and a column name that a table     *)
(* lacks, one dropped by a split included, comes back nullable: a column   *)
(* name that is once nullable in a table is never non-nullable in a later  *)
(* state of the table.                                                      *)
C17_NullableMonotone == [][NullableKept]_vars

(* C17's case: a batch declared c non-nullable for a table that had lost   *)
(* its column c to a split, and the batch committed with c added again.    *)
C17_Witness ==
    /\ Reconciled
    /\ ~ret.raised
    /\ "c" \notin DOMAIN TableBefore.cols
    /\ \E t \in {"i", "s", "f"} : ("c__" \o t) \in DOMAIN TableBefore.cols
    /\ TableBefore.comment # None
    /\ \E m \in DOMAIN The(TableBefore.comment).mappings :
           The(TableBefore.comment).mappings[m].from = "c"
    /\ IncomingSchema("c") # None
    /\ ~The(IncomingSchema("c")).nullable
    /\ "c" \in DOMAIN db[call.stream].cols
    /\ db[call.stream].cols["c"].nullable


(* The columns the reconciler added to the table. *)
ColumnsAdded == (DOMAIN TableAfter.cols) \ (DOMAIN TableBefore.cols)

(* C18: every column the reconciler adds to a table that holds at least    *)
(* one row is nullable, whatever the batch declares: a column added by the *)
(* 'new' case, and both columns added by a type split.                      *)
C18_AddedColumnsNullable ==
    (Reconciled /\ TableBefore.rows # {}) =>
        \A c \in ColumnsAdded : TableAfter.cols[c].nullable

(* C18's case: a batch declared a column non-nullable that the table,      *)
(* which held rows and had never been split, did not have; the column was  *)
(* added.                                                                   *)
C18_Witness ==
    /\ Reconciled
    /\ TableBefore.rows # {}
    /\ TableBefore.comment # None
    /\ DOMAIN The(TableBefore.comment).mappings = {}
    /\ IncomingSchema("c") # None
    /\ ~The(IncomingSchema("c")).nullable
    /\ ColumnsAdded = {"c"}
    /\ TableAfter.cols["c"].nullable


----------------------------------------------------------------------------
(* The claim on the sidecar metadata of the root table.                     *)

(* The key_properties of a table's sidecar metadata are, as a set, those   *)
(* of the stream buffer.                                                    *)
SidecarKeysMatch(table) ==
    /\ table.comment # None
    /\ Range(The(table.comment).key_properties) = Range(call.stream_buffer.key_properties)

(* The batch passed the check of the key definition: the stream had no    *)
(* table, or a table whose sidecar key_properties are the buffer's.        *)
KeysAccepted ==
    /\ call.stream_buffer.messages # <<>>
    /\ call.stream \in DOMAIN pre => SidecarKeysMatch(pre[call.stream])

----------------------------------------------------------------------------
(* The claim on the order of the reconciler's cases, for the column "c".   *)

(* The batch declares "c" for a table the stream already has, and passed   *)
(* the check of the key definition.                                         *)
ResolvesC == Reconciled /\ KeysAccepted /\ IncomingSchema("c") # None

IncomingSql == SqlOf(The(IncomingSchema("c")).type)

(* The sidecar maps the incoming type of "c" to a mapped column. *)
HasMapping ==
    /\ TableBefore.comment # None
    /\ IncomingMapped \in DOMAIN The(TableBefore.comment).mappings
    /\ The(TableBefore.comment).mappings[IncomingMapped].from = "c"

(* The remote columns when the loop reaches "c": the columns of the table  *)
(* and the columns the loop added for the properties declared before "c".  *)
RemoteColumns ==
    LET properties == call.stream_buffer.schema.properties
        at == CHOOSE i \in DOMAIN properties : properties[i].name = "c"
    IN  (DOMAIN TableBefore.cols) \cup {properties[i].name : i \in 1..(at - 1)}

(* The column "c" is as it was: there or not, with its type and            *)
(* nullability.                                                             *)
UnalteredC ==
    /\ "c" \in DOMAIN TableAfter.cols <=> "c" \in DOMAIN TableBefore.cols
    /\ "c" \in DOMAIN TableBefore.cols => TableAfter.cols["c"] = TableBefore.cols["c"]

CaseMapped == HasMapping

CaseNew == ~CaseMapped /\ "c" \notin DOMAIN TableBefore.cols

CaseWidenNull ==
    /\ ~CaseMapped /\ ~CaseNew
    /\ ~TableBefore.cols["c"].nullable
    /\ The(IncomingSchema("c")).nullable
    /\ IncomingSql = TableBefore.cols["c"].sql

CaseCompatible ==
    /\ ~CaseMapped /\ ~CaseNew /\ ~CaseWidenNull
    /\ IncomingSql = TableBefore.cols["c"].sql

CaseTypeChange == ~CaseMapped /\ ~CaseNew /\ IncomingSql # TableBefore.cols["c"].sql

CaseSplit == CaseTypeChange /\ {ExistingMapped, IncomingMapped} \cap RemoteColumns = {}

CaseConflict == CaseTypeChange /\ ~CaseSplit

(* C20: the reconciler resolves an incoming column by the first case that  *)
(* matches, in the order mapped (nothing changes), new (the column is      *)
(* added), widen-null (the column becomes nullable), compatible (nothing   *)
(* changes), split, conflict.  A type change without a mapping splits the  *)
(* column when both mapped names are absent from the remote columns, and   *)
(* otherwise the batch raises and leaves the column, and every table, as   *)
(* it was.                                                                  *)
C20_CaseOrder ==
    ResolvesC =>
        /\ CaseMapped => UnalteredC
        /\ CaseNew =>
               /\ "c" \in DOMAIN TableAfter.cols
               /\ TableAfter.cols["c"].sql = IncomingSql
        /\ CaseWidenNull =>
               TableAfter.cols["c"] = [sql |-> IncomingSql, nullable |-> TRUE]
        /\ CaseCompatible => UnalteredC
        /\ CaseSplit =>
               /\ "c" \notin DOMAIN TableAfter.cols
               /\ {ExistingMapped, IncomingMapped} \subseteq DOMAIN TableAfter.cols
        /\ CaseConflict => (ret.raised /\ UnalteredC /\ db = pre)

(* C20's case: the type of "c" changed without a mapping while a column    *)
(* with one of the mapped names was there: the batch raised.                *)
C20_Witness ==
    /\ ResolvesC
    /\ CaseConflict
    /\ ret.raised
    /\ db = pre
    /\ "c" \in DOMAIN db[call.stream].cols


----------------------------------------------------------------------------
(* The claim on the temp tables.                                            *)

(* The names get_temp_table_name gives: <target>__<uuid>. *)
IsTempTable(table) == EndsWith(table, "__uuid")

(* C21: in every state after write_batch returned or raised no temp table  *)
(* exists: the merge statement dropped it before COMMIT, or ROLLBACK       *)
(* removed it.                                                              *)
C21_NoTempTableLeft ==
    (pc \in {"idle", "done"} /\ call.op \in {"none", "write_batch"}) =>
        \A table \in DOMAIN db : ~IsTempTable(table)

(* C21's case: a write_batch raised while the transaction held a temp      *)
(* table it had created, and the temp table is gone.                        *)
C21_Witness ==
    /\ WriteBatchDone
    /\ ret.raised
    /\ \E table \in DOMAIN ret.working : IsTempTable(table)
    /\ \A table \in DOMAIN db : ~IsTempTable(table)


----------------------------------------------------------------------------
(* The row builder of persist_rows on its own: transform() applied to one  *)
(* record, once for every iteration order of the set `fields`.             *)

RECURSIVE transform_in_order(_, _, _, _, _, _)
(* for field in fields: ... of transform(), the fields taken in the given  *)
(* order.  A value that is None or the reserved string is written as the   *)
(* reserved string, None here; a column is written when the row lacks it   *)
(* or holds the reserved string in it.                                      *)
transform_in_order(record, order, i, row, mappings, streamed_properties) ==
    IF i > Len(order) THEN row
    ELSE LET field == order[i]
             found == Get(record, field)
             value == IF IsNullCell(found) THEN None ELSE found
             field_name == FieldName(field, mappings, streamed_properties)
         IN  transform_in_order(
                 record, order, i + 1,
                 IF field_name \notin DOMAIN row \/ row[field_name] = None
                 THEN SetKey(row, field_name, value)
                 ELSE row,
                 mappings, streamed_properties)

(* The iteration orders of a set. *)
Orders(S) ==
    {order \in [1..Cardinality(S) -> S] :
        \A i, j \in 1..Cardinality(S) : order[i] = order[j] => i = j}

(* The record holds, for a property the schema declares, a value of the   *)
(* declared type or the reserved string.                                    *)
WellTyped(record, streamed_properties) ==
    \A i \in DOMAIN streamed_properties :
        LET name == streamed_properties[i].name
        IN  (name \in DOMAIN record /\ ~IsNullCell(Some(record[name]))) =>
                (record[name].k = "str" <=> streamed_properties[i].schema.type = "string")

(* The rows transform() builds for the first record of persist_rows, one   *)
(* per iteration order of fields.                                           *)
Transform(Remotes, Streamed, Records) ==
    /\ pc = "idle"
    /\ \E remote_schema \in Remotes, streamed_schema \in Streamed, i \in DOMAIN Records :
       \E record \in Records[i] :
         LET headers == DOMAIN remote_schema.properties
             mappings == remote_schema.mappings
             fields == headers \cup {mappings[m].from : m \in DOMAIN mappings}
         IN  /\ WellTyped(record, streamed_schema.properties)
             /\ call' = [NoCall EXCEPT !.op = "transform",
                                       !.remote_schema = remote_schema,
                                       !.streamed_schema = streamed_schema,
                                       !.records = <<record>>]
             /\ ret' = [NoRet EXCEPT !.rows =
                           {transform_in_order(record, order, 1, EmptyFn, mappings,
                                               streamed_schema.properties) :
                               order \in Orders(fields)}]
    /\ pc' = "done"
    /\ pre' = db
    /\ UNCHANGED <<db, txOpen, fetched>>

(* The remote schemas of table "s": before any split, and after the split  *)
(* of "c" (integer) by an incoming string.                                  *)
RowRemotes ==
    LET plain == [id |-> Column("integer", FALSE), c |-> Column("integer", TRUE)]
        mapped == [id |-> Column("integer", FALSE)]
        split == [c__i |-> Column("integer", TRUE), c__s |-> Column("string", TRUE)]
        entry(type) == [type |-> get_type(Column(type, TRUE)), from |-> "c"]
    IN  { [properties |-> plain, mappings |-> EmptyFn],
          [properties |-> Update(plain, [c__s |-> Column("string", TRUE)]),
           mappings |-> EmptyFn],
          [properties |-> Update(mapped, split),
           mappings |-> [c__i |-> entry("integer"), c__s |-> entry("string")]] }

(* The streamed schemas: "c" declared in a mapped type, in a type without  *)
(* a mapping, or not declared.                                              *)
RowStreamed ==
    {[properties |-> <<Property("id", "integer", FALSE)>> \o c, lists |-> <<>>] :
        c \in {<<>>} \cup {<<Property("c", type, TRUE)>> : type \in SchemaTypes}}

(* The records with a value of "c" among the given ones or none, and      *)
(* with values under the names of the mapped columns.                       *)
RecordsWith(values) ==
    LET base == {[id |-> IntVal(1)]}
        withC == base \cup {SetKey(r, "c", v) : r \in base, v \in values}
        withS == withC \cup {SetKey(r, "c__s", v) : r \in withC,
                                v \in {StrVal("e"), StrVal(RESERVED_NULL_DEFAULT)}}
    IN  withS \cup {SetKey(r, "c__i", IntVal(5)) : r \in withS}

(* The records whose "c" is a number, and those whose "c" is a string or   *)
(* the reserved string.                                                     *)
RowRecords ==
    <<RecordsWith({IntVal(7)}), RecordsWith({StrVal("a"), StrVal(RESERVED_NULL_DEFAULT)})>>

NextRows == Transform(RowRemotes, RowStreamed, RowRecords) \/ Return

SpecRows == Init /\ [][NextRows]_vars


----------------------------------------------------------------------------
(* The claims on the rows persist_rows builds.                              *)

Transformed == pc = "done" /\ call.op = "transform"

RowRecord == call.records[1]

RowMappings == call.remote_schema.mappings

RowHeaders == DOMAIN call.remote_schema.properties

(* headers and the fields the mappings come from *)
RowFields == RowHeaders \cup {RowMappings[m].from : m \in DOMAIN RowMappings}

(* The type the streamed schema declares for a field, an optional value. *)
DeclaredType(field) ==
    LET properties == call.streamed_schema.properties
        hit == {i \in DOMAIN properties : properties[i].name = field}
    IN  IF hit = {} THEN None ELSE Some(properties[CHOOSE i \in hit : TRUE].schema.type)

(* The column the claim gives a field: f__short(type) when the field is    *)
(* declared with a type the sidecar maps from f, and f otherwise.           *)
ColumnFor(field) ==
    IF DeclaredType(field) = None THEN field
    ELSE LET mapped == field \o "__" \o TagOf(SqlOf(The(DeclaredType(field))))
         IN  IF mapped \in DOMAIN RowMappings /\ RowMappings[mapped].from = field
             THEN mapped
             ELSE field

(* The record holds a value for the field that is not the reserved string. *)
HoldsValue(field) ==
    /\ field \in DOMAIN RowRecord
    /\ RowRecord[field].k = "str" => RowRecord[field].v # "NULL"

(* The fields that write a value into a column. *)
ValueWriters(column) == {f \in RowFields : ColumnFor(f) = column /\ HoldsValue(f)}

(* C22: for every record and every iteration order of the field set, the   *)
(* built row has exactly the columns the fields resolve to (the mapped     *)
(* column for a field declared with a mapped type, the field's own name    *)
(* otherwise); a column that some field writes a value into holds the      *)
(* value of one of these fields, never null or the reserved string, and a  *)
(* column no field writes a value into is null; so when at most one field  *)
(* writes a value into each column the row is the same in every order.     *)
C22_RowBuilding ==
    Transformed =>
        /\ \A row \in ret.rows :
               /\ DOMAIN row = {ColumnFor(f) : f \in RowFields}
               /\ \A column \in DOMAIN row :
                      IF ValueWriters(column) = {}
                      THEN row[column] = None
                      ELSE \E f \in ValueWriters(column) : row[column] = Some(RowRecord[f])
        /\ (\A f \in RowFields : Cardinality(ValueWriters(ColumnFor(f))) <= 1) =>
               Cardinality(ret.rows) = 1

(* C22's case: the field c, declared with a mapped type, and the field     *)
(* c__s resolve to the same column; only c holds a value, and every order  *)
(* gives the row with that value.                                           *)
C22_Witness ==
    /\ Transformed
    /\ "c" \in RowFields
    /\ ColumnFor("c") = "c__s"
    /\ "c__s" \in DOMAIN RowRecord
    /\ ValueWriters("c__s") = {"c"}
    /\ ret.rows # {}
    /\ \A row \in ret.rows : row["c__s"] = Some(RowRecord["c"])


----------------------------------------------------------------------------
(* The claim on the uniqueness of keys.                                     *)

(* Two rows agree on every one of the columns. *)
AgreeOn(r1, r2, columns) == \A c \in columns : Get(r1, c) = Get(r2, c)

(* No two rows of a table with sidecar metadata agree on all its key       *)
(* columns and level index columns.                                         *)
KeysUnique(tabs) ==
    \A table \in DOMAIN tabs :
        tabs[table].comment # None =>
            \A r1, r2 \in tabs[table].rows :
                AgreeOn(r1, r2, KeyColumns(tabs, table) \cup LevelColumns(tabs, table))
                    => r1 = r2

(* C23: when before a batch no two rows of a table agree on all key        *)
(* columns and level index columns, then none do after the batch has       *)
(* merged its staged rows, in the table as the transaction left it and in  *)
(* the committed table.                                                     *)
C23_KeysStayUnique ==
    (WriteBatchDone /\ KeysUnique(pre)) => (KeysUnique(db) /\ (~ret.raised => KeysUnique(ret.working)))

(* C23's case: the child table held rows of a key, the batch staged        *)
(* several rows of that key, two of them with the same level index, and    *)
(* the merge replaced the rows of the key.                                  *)
C23_Witness ==
    /\ Committed
    /\ KeysUnique(pre)
    /\ "s__items" \in DOMAIN pre
    /\ \E i, j \in DOMAIN StagedSeq("s__items") :
           /\ i # j
           /\ AgreeOn(StagedSeq("s__items")[i], StagedSeq("s__items")[j],
                      GroupColumns("s__items"))
           /\ \E r \in pre["s__items"].rows :
                  /\ AgreeOn(r, StagedSeq("s__items")[i], KeyColumns(pre, "s__items"))
                  /\ r \notin db["s__items"].rows
    /\ KeysUnique(db)


----------------------------------------------------------------------------
(* The tables that an activation renames or drops.                          *)

(* Version numbers of which one is a decimal prefix of the other. *)
FamilyVersions == {1, 10}

(* A stream whose name matches the pattern s__1%: the underscores of the   *)
(* pattern stand for its second and third character.                        *)
LookAlikeStream == "sab1"

(* The calls of the family specification: batches of one message of stream *)
(* s, with no table version, version 1 or version 10; batches of one       *)
(* message of the look-alike stream; and the activation of either version  *)
(* of stream s.                                                              *)
FamilyBuffers ==
    {Buffer("s", <<"id">>, StreamSchema, <<Message(1, "a", 1, <<"x">>, version)>>) :
        version \in {None} \cup {Some(v) : v \in FamilyVersions}}
    \cup {Buffer(LookAlikeStream, <<"id">>, StreamSchema, <<Message(2, "b", 1, items, None)>>) :
        items \in {<<"y">>, <<>>}}

NextFamily ==
    \/ WriteBatch(FamilyBuffers, {"none"})
    \/ ActivateBegin({"s"}, FamilyVersions, {"none"})
    \/ ActivateSwap({"none"})
    \/ ActivateReturn
    \/ Return

SpecFamily == Init /\ [][NextFamily]_vars

(* The family of (stream, v): <stream>__<v> and the tables                  *)
(* <stream>__<v>__<path>, and their live counterparts <stream> and          *)
(* <stream>__<path>.                                                         *)
FamilyOf(tabs, stream, v) ==
    {table \in DOMAIN tabs :
        \/ table = versioned_root_table(stream, v)
        \/ StartsWith(table, versioned_root_table(stream, v) \o SEPARATOR)}

LiveFamilyOf(tabs, stream, v) == {LiveOf(stream, v, table) : table \in FamilyOf(tabs, stream, v)}

(* The call in progress renamed, dropped, created or replaced the table. *)
Touched(table) ==
    \/ table \notin DOMAIN pre
    \/ table \notin DOMAIN db
    \/ pre[table] # db[table]

(* C24: activate_version(stream, v) renames or drops only the tables of    *)
(* the family of (stream, v) and their live counterparts: during and after *)
(* the call every other table, of another version or of another stream, is *)
(* what it was before the call.                                             *)
C24_OnlyFamilyTouched ==
    Activating =>
        \A table \in (DOMAIN pre) \cup (DOMAIN db) :
            Touched(table) =>
                table \in FamilyOf(pre, call.stream, call.version)
                          \cup LiveFamilyOf(pre, call.stream, call.version)

(* The look-alike stream's table took the place of the live table of the   *)
(* stream whose version was activated.                                      *)
C24_LookAlikeSwapped ==
    /\ Activating
    /\ LookAlikeStream \in DOMAIN pre
    /\ LookAlikeStream \notin DOMAIN db
    /\ db[call.stream] = pre[LookAlikeStream]


----------------------------------------------------------------------------
(* The claim on the keys of the rows handed to the CSV writer.              *)

(* The streamed schema is one the reconciler has been through: a field     *)
(* that the sidecar maps from is, when the schema declares it, declared    *)
(* with a type that has a mapping.                                          *)
MappedWhereDeclared ==
    \A m \in DOMAIN RowMappings :
        LET field == RowMappings[m].from
        IN  DeclaredType(field) # None => ColumnFor(field) # field

(* C25: every row transform() builds has no key outside the header list of *)
(* the remote table, in every iteration order, also when the sidecar holds *)
(* mappings from a split of c and the streamed schema does not declare c:  *)
(* csv.DictWriter(out, headers) accepts the row.                            *)
C25_RowWithinHeaders ==
    (Transformed /\ MappedWhereDeclared) =>
        \A row \in ret.rows : DOMAIN row \subseteq RowHeaders


----------------------------------------------------------------------------
(* The claim on a reconciled table the batch holds no row for.              *)

(* The batch has records, and none of them has an element in its list:     *)
(* the child table is among the reconciled schemas, and the batch holds no *)
(* row for it.                                                               *)
NoRowForChild ==
    /\ WriteBatchDone
    /\ call.stream_buffer.messages # <<>>
    /\ \A i \in DOMAIN call.stream_buffer.messages :
           call.stream_buffer.messages[i].record.items = Items(<<>>)
    /\ "s__items" \in DOMAIN ret.reconciled

(* C26: a batch whose records have no list element still commits, leaves   *)
(* the rows of the child table unchanged, and flushes the buffer.           *)
C26_EmptyChildLoads ==
    NoRowForChild =>
        /\ ~ret.raised
        /\ ret.stmts = <<"BEGIN", "COMMIT">>
        /\ ret.flushed
        /\ "s__items" \in DOMAIN db
        /\ "s__items" \in DOMAIN pre => db["s__items"].rows = pre["s__items"].rows


----------------------------------------------------------------------------
(* The claim on the transactions a call leaves behind.                      *)

(* Every BEGIN among the statements of the call is followed by a COMMIT or *)
(* a ROLLBACK of the same call.                                             *)
EveryBeginClosed ==
    \A i \in DOMAIN ret.stmts :
        ret.stmts[i] = "BEGIN" =>
            \E j \in DOMAIN ret.stmts : j > i /\ ret.stmts[j] \in {"COMMIT", "ROLLBACK"}

(* C27: when write_batch or activate_version has returned or raised, each  *)
(* BEGIN it issued has been followed by a COMMIT or a ROLLBACK, on the     *)
(* paths of activate_version that only log as well.                         *)
C27_NoTransactionLeftOpen ==
    (pc = "done" /\ call.op \in {"write_batch", "activate_version"}) => EveryBeginClosed

====
